---- MODULE Spec2Model ----
(***************************************************************************)
(* Robust estimation of the fundamental matrix: the 8-point estimator      *)
(* find_fundamental, the Sampson residual sampson_error, the RANSAC model  *)
(* adapter RansacFundamentalModel and find_fundamental_with_ransac of      *)
(* Epipolar/fundamental.py, together with the consensus driver             *)
(* Ransac.execute that fundamental.py imports from the module ransac.      *)
(*                                                                         *)
(* A point array [d x N] is a sequence of N columns, each a sequence of d  *)
(* numbers.  Coordinates are integers chosen so that the division by w is  *)
(* exact.  A residual is a fraction <<numerator, denominator>>.  The       *)
(* singular value decompositions of find_fundamental are not computable    *)
(* here: the matrix they yield for a given sample is an unknown but fixed  *)
(* value, chosen the first time the sample is fitted and remembered.       *)
(*                                                                         *)
(* Further sections model the Euler angle classes of                       *)
(* BasicModule/euler_state.py, the coordinate conventions of               *)
(* BasicModule/coordinate_state.py with look_at and camera_pose of         *)
(* camera.py, and the piecewise affine embedding of Homography/affine.py.  *)
(***************************************************************************)
EXTENDS Integers, Sequences, FiniteSets, TLC

\* ------------------------------------------------------------------ bounds
MaxN == 21
SmallN == 5
MaxIter == 2
MaxCalls == 2
NumWorkers == 2
NumWindows == 2

\* ------------------------------------------------- constants of the program
\* the minimal sample of a homography, where a fundamental matrix needs 8
required_min_num_data_4 == 8 \div 2

required_min_num_data == 8

\* half the number of required inliers
required_inliers_10 == 20 \div 2

required_inliers == 20

\* The values match_threashold takes: the default 1e-6 of the signature and
\* the 3 of the docstring, as fractions <<numerator, denominator>>.
Thresholds == { <<1, 1000000>>, <<3, 1>> }

\* ----------------------------------------------------- candidate matrices
\* Matrices with F[2,2] = 1, as find_fundamental returns them.
\* MA: x1^T MA x2 = w1*(y2 + w2) - y1*w2,  MB: x1^T MB x2 = w1*(x2 + w2) - x1*w2
MA == << <<0, 0, 0>>, <<0, 0, -1>>, <<0, 1, 1>> >>
MB == << <<0, 0, -1>>, <<0, 0, 0>>, <<1, 0, 1>> >>

\* What a fit returns or raises: a matrix, a matrix whose entries are not
\* finite (F / F[2,2] with F[2,2] = 0), or an exception.
Res(kind, F) == [kind |-> kind, F |-> F]
NonFinite == Res("nonfinite", << >>)
LinAlgError == Res("LinAlgError", << >>)
ValueError == Res("ValueError", << >>)
NoModel == Res("None", << >>)
Models == { Res("matrix", MA), Res("matrix", MB), NonFinite }

\* --------------------------------------------------------------- helpers
Min(a, b) == IF a < b THEN a ELSE b

\* M @ v for a 3x3 matrix and a 3-vector
MatVec(M, v) == [r \in 1..3 |-> M[r][1]*v[1] + M[r][2]*v[2] + M[r][3]*v[3]]

Dot(u, v) == u[1]*v[1] + u[2]*v[2] + u[3]*v[3]

\* numpy fancy indexing data[idxs]: a fresh array holding the chosen columns
Take(arr, idxs) == [k \in 1..Len(idxs) |-> arr[idxs[k]]]

\* data[:3, :] and data[3:, :] of a [d x N] array
RowsTo3(arr) == [i \in 1..Len(arr) |-> SubSeq(arr[i], 1, Min(3, Len(arr[i])))]
RowsFrom3(arr) == [i \in 1..Len(arr) |-> SubSeq(arr[i], 4, Len(arr[i]))]

\* shape[0] of a [d x N] array with N >= 1
NumRows(arr) == Len(arr[1])

\* np.vstack((a, b)) of two arrays with the same number of columns
VStack(a, b) == [i \in 1..Len(a) |-> a[i] \o b[i]]

\* ------------------------------------------------------ sampson_error
\* One entry of errors = numerators / denominators.
SampsonEntry(p1, p2, F) ==
    LET Fx1 == MatVec(F, p1)
        Fx2 == MatVec(F, p2)
        den == Fx1[1]*Fx1[1] + Fx1[2]*Fx1[2] + Fx2[1]*Fx2[1] + Fx2[2]*Fx2[2]
        d   == Dot(p1, MatVec(F, p2))
    IN  << d * d, den >>

\* A matrix without finite entries gives nan in every entry.
sampson_error(x1, x2, F) ==
    [i \in 1..Len(x1) |-> IF F.kind = "nonfinite" THEN <<0, 0>>
                          ELSE SampsonEntry(x1[i], x2[i], F.F)]

\* errors < threshold, entry by entry, as numpy compares floats: a fraction
\* with denominator 0 is nan or inf and compares False.
Below(e, thr) == e[2] > 0 /\ e[1] * thr[2] < thr[1] * e[2]

\* get_error with the two point sets taken from the wrong halves of the rows
get_error_Swapped(data, estimated_model) ==
    sampson_error(RowsFrom3(data), RowsTo3(data), estimated_model)

\* ------------------------------------------ RansacFundamentalModel.get_error
get_error(data, estimated_model) ==
    sampson_error(RowsTo3(data), RowsFrom3(data), estimated_model)

\* --------------------------------------------------------- find_fundamental
\* img_pts /= img_pts[-1,:] : every row divided by the last row, in place
Homogenize(pts) ==
    [i \in 1..Len(pts) |->
        [r \in 1..Len(pts[i]) |-> pts[i][r] \div pts[i][Len(pts[i])]]]

\* np.std(img_pts[:2]) = 0: the x and y values, pooled, are all the same
StdIsZero(pts) ==
    \A i, j \in 1..Len(pts) :
        /\ pts[i][1] = pts[j][1]
        /\ pts[i][2] = pts[j][2]
        /\ pts[i][1] = pts[i][2]

\* the checks of lines 95-99 with the coordinate dimension of a 2D point
ShapeError_Dim2(img1_pts, img2_pts) ==
    \/ NumRows(img1_pts) # 2
    \/ NumRows(img2_pts) # 2
    \/ Len(img1_pts) # Len(img2_pts)

\* the checks of lines 95-99 with a third one, on the size of the sample
ShapeError_Only8(img1_pts, img2_pts) ==
    \/ NumRows(img1_pts) # 3
    \/ NumRows(img2_pts) # 3
    \/ Len(img1_pts) # Len(img2_pts)
    \/ Len(img1_pts) # required_min_num_data

\* the checks of lines 95-99
ShapeError(img1_pts, img2_pts) ==
    \/ NumRows(img1_pts) # 3
    \/ NumRows(img2_pts) # 3
    \/ Len(img1_pts) # Len(img2_pts)

\* find_fundamental with the points of zero deviation let through: the
\* decompositions run on them and a matrix without finite entries results
find_fundamental_NoRaise(img1_pts, img2_pts) ==
    IF ShapeError(img1_pts, img2_pts) THEN { ValueError }
    ELSE IF StdIsZero(Homogenize(img1_pts)) \/ StdIsZero(Homogenize(img2_pts))
         THEN { NonFinite }
         ELSE Models \cup { LinAlgError }

\* find_fundamental restricted to the minimal sample: any other number of
\* correspondences is an invalid argument
find_fundamental_Only8(img1_pts, img2_pts) ==
    IF ShapeError(img1_pts, img2_pts) \/ Len(img1_pts) # required_min_num_data
    THEN { ValueError }
    ELSE IF StdIsZero(Homogenize(img1_pts)) \/ StdIsZero(Homogenize(img2_pts))
         THEN { LinAlgError }
         ELSE Models \cup { LinAlgError }

\* What find_fundamental can return or raise on the given arrays.  With a
\* zero standard deviation the scale is infinite, the normalized points are
\* nan and np.linalg.svd raises LinAlgError; otherwise the decompositions
\* either fail to converge or yield a matrix.
find_fundamental(img1_pts, img2_pts) ==
    IF ShapeError(img1_pts, img2_pts) THEN { ValueError }
    ELSE IF StdIsZero(Homogenize(img1_pts)) \/ StdIsZero(Homogenize(img2_pts))
         THEN { LinAlgError }
         ELSE Models \cup { LinAlgError }

\* ------------------------------------------------ RansacFundamentalModel.fit
\* data.T, the split into the two point sets, and find_fundamental on them
fit(data) == find_fundamental(RowsTo3(data), RowsFrom3(data))

\* ------------------------------------------------------------------ inputs
\* A correspondence of the scene: p2 = (a, b, 1) and p1 = p2 + (dx, dy, 0).
\* dx = 1 makes it satisfy MB exactly, dy = 1 makes it satisfy MA exactly.
Corr(a, b, dx, dy, w) ==
    [p1 |-> << w * (a + dx), w * (b + dy), w >>, p2 |-> << w * a, w * b, w >>]

Patterns == { "tie", "better", "outliers", "coincident" }

\* The i-th of n correspondences of a pattern, with homogeneous scale w.
CorrOf(pat, i, n, w) ==
    CASE pat = "tie" ->
           IF i = n - 1 THEN Corr(i % 3, i % 2, 3, 1, w)
           ELSE IF i = n THEN Corr(i % 3, i % 2, 1, 3, w)
           ELSE Corr(i % 3, i % 2, 1, 1, w)
      [] pat = "better" ->
           IF i = n THEN Corr(i % 3, i % 2, 3, 1, w)
           ELSE Corr(i % 3, i % 2, 1, 1, w)
      [] pat = "outliers" ->
           IF i > n - 3 THEN Corr(i % 3, i % 2, 5, 5, w)
           ELSE Corr(i % 3, i % 2, 1, 1, w)
      [] OTHER ->
           IF i <= required_min_num_data THEN Corr(0, 0, 1, 1, w)
           ELSE Corr(i % 3, i % 2, 1, 1, w)

Points1(pat, n, w) == [i \in 1..n |-> CorrOf(pat, i, n, w).p1]
Points2(pat, n, w) == [i \in 1..n |-> CorrOf(pat, i, n, w).p2]

\* img[:2, :] : an array whose coordinate dimension is 2
DropRow(arr) == [i \in 1..Len(arr) |-> SubSeq(arr[i], 1, 2)]

\* arr[:, :-1] : an array with one point less
DropPoint(arr) == SubSeq(arr, 1, Len(arr) - 1)

Sizes == { SmallN, MaxN - 1, MaxN }

\* The calls the caller can make: well-formed correspondence sets, and two
\* malformed ones (different numbers of points, coordinate dimension 2).
WellFormed ==
    { << Points1(pat, n, w), Points2(pat, n, w) >> :
        pat \in Patterns, n \in Sizes, w \in {1, 2} }

Malformed ==
    { << Points1("tie", n, 1), DropPoint(Points2("tie", n, 1)) >> : n \in Sizes }
    \cup { << DropRow(Points1("tie", n, 1)), Points2("tie", n, 1) >> : n \in Sizes }

\* ------------------------------------------------------------------- state
VARIABLES
    img1_pts, img2_pts,      \* the caller's point arrays
    match_threashold,        \* argument of find_fundamental_with_ransac
    max_iter,                \* argument of find_fundamental_with_ransac
    orig_pts,                \* the caller's arrays as first supplied
    pc,                      \* position of the call in progress
    data,                    \* the [N x 6] array built by vstack
    iterations,              \* iteration counter of the driver
    best_model, best_mask, best_count,
    sample,                  \* the indices drawn in this iteration
    fit_result,              \* what fit returned or raised
    candidate,               \* the candidate scored in this iteration
    outcome,                 \* what the caller received from the last call
    prev_outcome,            \* what the caller received from the call before
    calls,                   \* calls of find_fundamental_with_ransac made
    direct,                  \* result of the caller's own find_fundamental call
    fitted,                  \* the matrices the decompositions gave so far
    scored,                  \* candidates scored in this execution
    drawn,                   \* samples drawn in this execution
    workers,                 \* parallel driver: state of each worker
    next_index,              \* parallel driver: next iteration index to hand out
    best_slot,               \* parallel driver: the shared best-so-far slot
    matrix,                  \* a 3x3 matrix the caller holds
    applied,                 \* the function the caller applied by itself
    result,                  \* what that function gave
    arg,                     \* the arguments the caller gave that function
    coor_state               \* the coordinate state the caller constructed

vars == << img1_pts, img2_pts, match_threashold, max_iter, orig_pts, pc, data,
           iterations, best_model, best_mask, best_count, sample, fit_result,
           candidate, outcome, prev_outcome, calls, direct, fitted, scored,
           drawn, workers, next_index, best_slot, matrix, applied, result,
           arg, coor_state >>

callerVars == << img1_pts, img2_pts, match_threashold, max_iter, orig_pts >>
bestVars == << best_model, best_mask, best_count >>
parVars == << workers, next_index, best_slot >>
pureVars == << matrix, applied, result, arg, coor_state >>

NoCandidate == [model |-> NoModel, mask |-> << >>, count |-> 0, index |-> 0]

IsError(r) == r.kind \in { "ValueError", "LinAlgError" }

\* What the caller receives: a (model, inlier_mask) pair or an exception.
Returned(model, mask) == [kind |-> "pair", model |-> model, mask |-> mask]
Raised(kind) == [kind |-> kind, model |-> NoModel, mask |-> << >>]
Nothing == Raised("none")

\* The value of a decomposition is fixed by the points it is given: the
\* result for a set of indices is chosen once and remembered.
Known(idxs) == { p \in fitted : p[1] = idxs }

FitOutcomes(arr, idxs) ==
    IF Known(idxs) # {} THEN { p[2] : p \in Known(idxs) }
    ELSE fit(Take(arr, idxs))

\* A sample drawn with replacement: the second half repeats the first
Window_WithReplacement(s) ==
    [k \in 1..required_min_num_data |-> s + ((k - 1) % 4)]

\* The minimal samples the generator can deliver for n points.
Window(s) == [k \in 1..required_min_num_data |-> s + k - 1]
SampleSpace(n) ==
    { Window(s) : s \in 1..Min(NumWindows, n - required_min_num_data + 1) }

Indices(n) == [k \in 1..n |-> k]

\* mask and number of inliers of a residual array
MaskOf(errors, thr) == [i \in 1..Len(errors) |-> Below(errors[i], thr)]
CountOf(mask) == Cardinality({ i \in 1..Len(mask) : mask[i] })

RECURSIVE Select(_, _)
\* np.flatnonzero(mask): the indices whose entry is true, in order
Select(mask, i) ==
    IF i > Len(mask) THEN << >>
    ELSE IF mask[i] THEN << i >> \o Select(mask, i + 1)
         ELSE Select(mask, i + 1)

\* No matrix, and no result of a function applied by the caller.
NoMatrix == << >>
NoResult == [kind |-> "none"]
NoArg == [fn |-> "none"]
NoInstance == [class |-> "none"]

\* Nothing has been called yet.
AtRest ==
    /\ pc = "idle"
    /\ data = << >>
    /\ iterations = 0
    /\ best_model = NoModel
    /\ best_mask = << >>
    /\ best_count = 0
    /\ sample = << >>
    /\ fit_result = NoModel
    /\ candidate = NoCandidate
    /\ outcome = Nothing
    /\ prev_outcome = Nothing
    /\ calls = 0
    /\ direct = NoModel
    /\ fitted = {}
    /\ scored = << >>
    /\ drawn = 0
    /\ workers = << >>
    /\ next_index = 0
    /\ best_slot = NoCandidate
    /\ applied = "none"
    /\ result = NoResult

Init ==
    /\ \E inp \in WellFormed \cup Malformed :
         /\ img1_pts = inp[1]
         /\ img2_pts = inp[2]
         /\ orig_pts = inp
    /\ match_threashold \in Thresholds
    /\ max_iter \in 0..MaxIter
    /\ matrix = NoMatrix
    /\ arg = NoArg
    /\ coor_state = NoInstance
    /\ AtRest

\* ------------------------------------------- find_fundamental_with_ransac
\* Lines 207-219: the model and the driver are created, the two arrays are
\* stacked into a new array, and the driver is run on it.  np.vstack raises
\* ValueError when the arrays differ in their number of points.
Call ==
    /\ pc \in { "idle", "returned" }
    /\ calls < MaxCalls
    /\ calls' = calls + 1
    /\ prev_outcome' = outcome
    /\ IF Len(img1_pts) # Len(img2_pts)
       THEN /\ outcome' = Raised("ValueError")
            /\ pc' = "returned"
            /\ data' = << >>
       ELSE /\ outcome' = Nothing
            /\ pc' = "execute"
            /\ data' = VStack(img1_pts, img2_pts)
    /\ iterations' = 0
    /\ best_model' = NoModel
    /\ best_mask' = << >>
    /\ best_count' = 0
    /\ sample' = << >>
    /\ fit_result' = NoModel
    /\ candidate' = NoCandidate
    /\ scored' = << >>
    /\ drawn' = 0
    /\ UNCHANGED << callerVars, direct, fitted, parVars, pureVars >>

\* ------------------------------------------------------------ Ransac.execute
\* The up-front check of the number of correspondences.
Execute ==
    /\ pc = "execute"
    /\ IF Len(data) < required_min_num_data
       THEN /\ outcome' = Raised("InsufficientDataError")
            /\ pc' = "returned"
       ELSE /\ pc' = "SAMPLING"
            /\ UNCHANGED outcome
    /\ UNCHANGED << callerVars, data, iterations, bestVars, sample, fit_result,
                    candidate, prev_outcome, calls, direct, fitted, scored,
                    drawn, parVars, pureVars >>

\* SAMPLING: between iterations, with iterations left, a minimal sample is
\* drawn from the process-wide generator.
Sampling ==
    /\ pc = "SAMPLING"
    /\ iterations < max_iter
    /\ \E idxs \in SampleSpace(Len(data)) : sample' = idxs
    /\ drawn' = drawn + 1
    /\ pc' = "FITTING"
    /\ UNCHANGED << callerVars, data, iterations, bestVars, fit_result,
                    candidate, outcome, prev_outcome, calls, direct, fitted,
                    scored, parVars, pureVars >>

\* FITTING: model.fit on the sampled rows, a fresh array.
Fitting ==
    /\ pc = "FITTING"
    /\ \E r \in FitOutcomes(data, sample) :
         /\ fit_result' = r
         /\ fitted' = fitted \cup { << sample, r >> }
    /\ pc' = "FITTED"
    /\ UNCHANGED << callerVars, data, iterations, bestVars, sample, candidate,
                    outcome, prev_outcome, calls, direct, scored, drawn,
                    parVars, pureVars >>

\* Abandon without counting the iteration
Abandon_NotCounted ==
    /\ pc = "FITTED"
    /\ fit_result.kind = "LinAlgError"
    /\ pc' = "SAMPLING"
    /\ UNCHANGED << callerVars, data, iterations, bestVars, sample, fit_result,
                    candidate, outcome, prev_outcome, calls, direct, fitted,
                    scored, drawn, parVars, pureVars >>

\* A numerical failure of the fit: the iteration is abandoned and counted.
Abandon ==
    /\ pc = "FITTED"
    /\ fit_result.kind = "LinAlgError"
    /\ iterations' = iterations + 1
    /\ pc' = "SAMPLING"
    /\ UNCHANGED << callerVars, data, bestVars, sample, fit_result, candidate,
                    outcome, prev_outcome, calls, direct, fitted, scored,
                    drawn, parVars, pureVars >>

\* An invalid argument reported by the fit is surfaced immediately.
Surface ==
    /\ pc = "FITTED"
    /\ fit_result.kind = "ValueError"
    /\ outcome' = Raised("ValueError")
    /\ pc' = "returned"
    /\ UNCHANGED << callerVars, data, iterations, bestVars, sample, fit_result,
                    candidate, prev_outcome, calls, direct, fitted, scored,
                    drawn, parVars, pureVars >>

\* The candidate of a fitted model: its residuals over the whole data, the
\* mask of the residuals below the threshold, and the number of inliers.
Score(model, index) ==
    LET mask == MaskOf(get_error(data, model), match_threashold)
    IN  [model |-> model, mask |-> mask, count |-> CountOf(mask),
         index |-> index]

\* SCORING
Scoring ==
    /\ pc = "FITTED"
    /\ ~ IsError(fit_result)
    /\ candidate' = Score(fit_result, iterations)
    /\ scored' = Append(scored, candidate')
    /\ pc' = "DECIDE"
    /\ UNCHANGED << callerVars, data, iterations, bestVars, sample, fit_result,
                    outcome, prev_outcome, calls, direct, fitted, drawn,
                    parVars, pureVars >>

\* Beats with replacement on an equal count
Beats_OnEqual(cand, count) == cand.count >= count /\ cand.count >= required_inliers

\* The candidate beats the recorded best and has enough inliers.
Beats(cand, count) == cand.count > count /\ cand.count >= required_inliers

\* ACCEPT
Accept ==
    /\ pc = "DECIDE"
    /\ Beats(candidate, best_count)
    /\ best_model' = candidate.model
    /\ best_mask' = candidate.mask
    /\ best_count' = candidate.count
    /\ iterations' = iterations + 1
    /\ pc' = "SAMPLING"
    /\ UNCHANGED << callerVars, data, sample, fit_result, candidate, outcome,
                    prev_outcome, calls, direct, fitted, scored, drawn,
                    parVars, pureVars >>

\* REJECT
Reject ==
    /\ pc = "DECIDE"
    /\ ~ Beats(candidate, best_count)
    /\ iterations' = iterations + 1
    /\ pc' = "SAMPLING"
    /\ UNCHANGED << callerVars, data, bestVars, sample, fit_result, candidate,
                    outcome, prev_outcome, calls, direct, fitted, scored,
                    drawn, parVars, pureVars >>

\* TERMINATION, checked between iterations: the budget is used up.
Terminate ==
    /\ pc = "SAMPLING"
    /\ iterations >= max_iter
    /\ IF best_model = NoModel
       THEN /\ outcome' = Raised("NoModelFoundError")
            /\ pc' = "returned"
       ELSE /\ pc' = "REFINE"
            /\ UNCHANGED outcome
    /\ UNCHANGED << callerVars, data, iterations, bestVars, sample, fit_result,
                    candidate, prev_outcome, calls, direct, fitted, scored,
                    drawn, parVars, pureVars >>

\* The final refinement letting the error of the decomposition through
Refine_Raw ==
    /\ pc = "REFINE"
    /\ LET idxs == Select(best_mask, 1)
       IN  \E r \in FitOutcomes(data, idxs) :
             /\ fitted' = fitted \cup { << idxs, r >> }
             /\ outcome' = IF IsError(r) THEN Raised(r.kind)
                           ELSE Returned(r, best_mask)
    /\ pc' = "returned"
    /\ UNCHANGED << callerVars, data, iterations, bestVars, sample, fit_result,
                    candidate, prev_outcome, calls, direct, scored, drawn,
                    parVars, pureVars >>

\* Final refinement: the model is fitted again on all inliers of the best
\* model; a failure of that fit is reported as NoModelFoundError.
Refine ==
    /\ pc = "REFINE"
    /\ LET idxs == Select(best_mask, 1)
       IN  \E r \in FitOutcomes(data, idxs) :
             /\ fitted' = fitted \cup { << idxs, r >> }
             /\ outcome' = IF IsError(r) THEN Raised("NoModelFoundError")
                           ELSE Returned(r, best_mask)
    /\ pc' = "returned"
    /\ UNCHANGED << callerVars, data, iterations, bestVars, sample, fit_result,
                    candidate, prev_outcome, calls, direct, scored, drawn,
                    parVars, pureVars >>

\* ----------------------------------- the caller's own find_fundamental call
\* Lines 95-154 applied to the caller's arrays: after the two checks both
\* arrays are divided by their last row in place, then the matrix is fitted.
Direct ==
    /\ pc \in { "idle", "returned" }
    /\ IF ShapeError(img1_pts, img2_pts)
       THEN /\ direct' = ValueError
            /\ UNCHANGED << img1_pts, img2_pts, fitted >>
       ELSE /\ img1_pts' = Homogenize(img1_pts)
            /\ img2_pts' = Homogenize(img2_pts)
            /\ \E r \in FitOutcomes(VStack(img1_pts, img2_pts),
                                    Indices(Len(img1_pts))) :
                 /\ direct' = r
                 /\ fitted' = fitted \cup { << Indices(Len(img1_pts)), r >> }
    /\ UNCHANGED << match_threashold, max_iter, orig_pts, pc, data, iterations,
                    bestVars, sample, fit_result, candidate, outcome,
                    prev_outcome, calls, scored, drawn, parVars, pureVars >>

Driver ==
    \/ Execute
    \/ Sampling
    \/ Fitting
    \/ Abandon
    \/ Surface
    \/ Scoring
    \/ Accept
    \/ Reject
    \/ Terminate
    \/ Refine

Next ==
    \/ Call
    \/ Driver
    \/ Direct

Spec == Init /\ [][Next]_vars

\* ---------------------------- Ransac.execute with adaptive early stopping
\* The bound with the ratio of inliers never below one correspondence: a
\* finite bound exists before any model is accepted
AdaptiveBounds_Clamped(count, n) == 0..MaxIter

\* The bounds on the number of iterations required that the best inlier
\* ratio count / n and a target confidence can give,
\* log(1 - confidence) / log(1 - (count / n)^8).  Without an accepted model
\* the ratio is 0, the logarithm in the denominator is 0 and no finite bound
\* exists; otherwise the bound is some number from 0 on, depending on the
\* confidence.
AdaptiveBounds(count, n) == IF count = 0 THEN {} ELSE 0..MaxIter

\* TERMINATION before the budget is used up: the adaptive bound has dropped
\* below the iterations already performed.
EarlyStop ==
    /\ pc = "SAMPLING"
    /\ iterations < max_iter
    /\ \E k \in AdaptiveBounds(best_count, Len(data)) : k < iterations
    /\ IF best_model = NoModel
       THEN /\ outcome' = Raised("NoModelFoundError")
            /\ pc' = "returned"
       ELSE /\ pc' = "REFINE"
            /\ UNCHANGED outcome
    /\ UNCHANGED << callerVars, data, iterations, bestVars, sample, fit_result,
                    candidate, prev_outcome, calls, direct, fitted, scored,
                    drawn, parVars, pureVars >>

\* The inputs of the runs with early stopping: the largest correspondence
\* sets with w = 1, and one whose coordinate dimension is 2.
AdaptInputs ==
    { << Points1(pat, MaxN, 1), Points2(pat, MaxN, 1) >> : pat \in Patterns }
    \cup { << DropRow(Points1("tie", MaxN, 1)), Points2("tie", MaxN, 1) >> }

AdaptInit == Init /\ orig_pts \in AdaptInputs

AdaptNext ==
    \/ Next
    \/ EarlyStop

SpecAdapt == AdaptInit /\ [][AdaptNext]_vars

\* --------------------------------------------- Ransac.execute, in parallel
\* The iterations run on several workers.  Each worker takes the next
\* iteration index, draws, fits and scores in private, and then updates the
\* shared best-so-far slot in one atomic compare-and-swap step.
Workers == 1..NumWorkers

Free == [state |-> "free", index |-> 0, sample |-> << >>, cand |-> NoCandidate]

seqVars == << callerVars, iterations, bestVars, sample, fit_result, candidate,
              outcome, prev_outcome, calls, direct, drawn >>

\* The inputs of the parallel runs: the largest correspondence sets, w = 1.
ParInputs ==
    { << Points1(pat, MaxN, 1), Points2(pat, MaxN, 1) >> :
        pat \in { "tie", "better", "coincident" } }

ParInit == Init /\ orig_pts \in ParInputs

ParStart ==
    /\ pc = "idle"
    /\ Len(img1_pts) >= required_min_num_data
    /\ data' = VStack(img1_pts, img2_pts)
    /\ workers' = [w \in Workers |-> Free]
    /\ next_index' = 0
    /\ best_slot' = NoCandidate
    /\ pc' = "parallel"
    /\ UNCHANGED << seqVars, pureVars, fitted, scored >>

\* A free worker takes the next iteration index and draws its sample.
ParSample(w) ==
    /\ pc = "parallel"
    /\ workers[w].state = "free"
    /\ next_index < max_iter
    /\ \E idxs \in SampleSpace(Len(data)) :
         workers' = [workers EXCEPT ![w] =
                       [state |-> "fitting", index |-> next_index,
                        sample |-> idxs, cand |-> NoCandidate]]
    /\ next_index' = next_index + 1
    /\ UNCHANGED << seqVars, pureVars, data, fitted, scored, best_slot, pc >>

\* The worker fits and scores its sample; a failed fit ends its iteration.
ParFit(w) ==
    /\ pc = "parallel"
    /\ workers[w].state = "fitting"
    /\ \E r \in FitOutcomes(data, workers[w].sample) :
         /\ fitted' = fitted \cup { << workers[w].sample, r >> }
         /\ workers' = [workers EXCEPT ![w] =
                          IF IsError(r) THEN Free
                          ELSE [state |-> "update", index |-> @.index,
                                sample |-> @.sample,
                                cand |-> Score(r, @.index)]]
    /\ UNCHANGED << seqVars, pureVars, data, scored, next_index, best_slot, pc >>

\* ParBeats without the rule for equal counts: the first to arrive wins
ParBeats_FirstReached(cand, slot) == Beats(cand, slot.count)

\* The candidate replaces the slot on a larger count, or on an equal count
\* when it comes from a lower iteration index.
ParBeats(cand, slot) ==
    /\ cand.count >= required_inliers
    /\ \/ cand.count > slot.count
       \/ cand.count = slot.count /\ cand.index < slot.index

\* The compare-and-swap reduction into the shared slot.
ParUpdate(w) ==
    /\ pc = "parallel"
    /\ workers[w].state = "update"
    /\ best_slot' = IF ParBeats(workers[w].cand, best_slot)
                    THEN workers[w].cand ELSE best_slot
    /\ scored' = Append(scored, workers[w].cand)
    /\ workers' = [workers EXCEPT ![w] = Free]
    /\ UNCHANGED << seqVars, pureVars, data, fitted, next_index, pc >>

\* All iterations are done.
ParFinish ==
    /\ pc = "parallel"
    /\ next_index >= max_iter
    /\ \A w \in Workers : workers[w].state = "free"
    /\ pc' = "pardone"
    /\ UNCHANGED << seqVars, data, fitted, scored, parVars, pureVars >>

ParNext ==
    \/ ParStart
    \/ \E w \in Workers : ParSample(w)
    \/ \E w \in Workers : ParFit(w)
    \/ \E w \in Workers : ParUpdate(w)
    \/ ParFinish

SpecPar == ParInit /\ [][ParNext]_vars

\* ------------------------------- the functions applied by the caller itself
\* The caller holds two point arrays and a 3x3 matrix and applies one of
\* the functions of fundamental.py, or one of the steps of find_fundamental,
\* to them.
PureN == 2

\* Points (x, y, w): two of them on the line y = 0, one with w = 2.
PurePoints ==
    { <<1, 1, 1>>, <<0, 0, 1>>, <<2, 0, 1>>, <<2, 4, 2>>, <<-1, -1, 1>> }

PureArrays == [1..PureN -> PurePoints]

\* MC has rank 2, MC[2,2] = 1 and MC @ (1, 1, 1) = 0; MD has two zero rows;
\* MX is the matrix of a translation along x, with MX[2,2] = 0; M2 is MB
\* before the division by its bottom-right entry.
MC == << <<0, 1, -1>>, <<1, 0, -1>>, <<-1, 0, 1>> >>
MD == << <<0, 0, 0>>, <<0, 0, 0>>, <<0, 0, 1>> >>
MX == << <<0, 0, 0>>, <<0, 0, -1>>, <<0, 1, 0>> >>
M2 == << <<0, 0, -2>>, <<0, 0, 0>>, <<2, 0, 2>> >>

\* Raw solutions V[-1].reshape(3,3) with one entry in each row and column.
M0 == << <<0, 0, 6>>, <<2, 0, 0>>, <<0, 1, 0>> >>
M1 == << <<3, 0, 0>>, <<0, 2, 0>>, <<0, 0, 1>> >>

PureMatrices == { MA, MB, MC, MD, MX, M2, M0, M1 }

\* Eight correspondences that satisfy MC exactly, x1^T MC x2 = 0, in general
\* position; in both images the pooled deviation of x and y is sqrt(2).
Eight1 ==
    << <<-2, -1, 1>>, <<2, -1, 1>>, <<-3, -1, 1>>, <<-2, 2, 1>>,
       <<-1, 1, 1>>, <<0, 0, 1>>, <<0, -1, 1>>, <<-2, 1, 1>> >>
Eight2 ==
    << <<3, -1, 1>>, <<0, 0, 1>>, <<-2, 3, 1>>, <<3, 2, 1>>,
       <<2, 1, 1>>, <<1, 0, 1>>, <<1, 2, 1>>, <<0, 1, 1>> >>

PureInputs == (PureArrays \X PureArrays) \cup { << Eight1, Eight2 >> }

PureInit ==
    /\ \E inp \in PureInputs :
         /\ img1_pts = inp[1]
         /\ img2_pts = inp[2]
    /\ orig_pts = << img1_pts, img2_pts >>
    /\ match_threashold = << 3, 1 >>
    /\ max_iter = 0
    /\ matrix \in PureMatrices
    /\ arg = NoArg
    /\ coor_state = NoInstance
    /\ AtRest

\* F.T
Transpose(M) == [i \in 1..3 |-> [j \in 1..3 |-> M[j][i]]]

\* numerators / denominators (line 80) as numpy divides floats: a zero
\* denominator gives inf under a numerator that is not zero and nan under a
\* zero numerator, with a warning and without an exception.
FloatOf(e) ==
    IF e[2] # 0 THEN "finite" ELSE IF e[1] # 0 THEN "inf" ELSE "nan"

\* sampson_error(x1, x2, F) and sampson_error(x2, x1, F.T)
ApplySampson ==
    /\ pc = "idle"
    /\ applied = "none"
    /\ matrix # NoMatrix
    /\ applied' = "sampson_error"
    /\ result' = [kind |-> "errors",
                  errors |-> sampson_error(img1_pts, img2_pts,
                                           Res("matrix", matrix)),
                  swapped |-> sampson_error(img2_pts, img1_pts,
                                            Res("matrix", Transpose(matrix)))]
    /\ UNCHANGED << callerVars, pc, data, iterations, bestVars, sample,
                    fit_result, candidate, outcome, prev_outcome, calls,
                    direct, fitted, scored, drawn, parVars, matrix, arg,
                    coor_state >>

RECURSIVE SumRow(_, _, _)
\* the sum of row r over the first k columns of a point array
SumRow(pts, r, k) == IF k = 0 THEN 0 ELSE pts[k][r] + SumRow(pts, r, k - 1)

\* np.mean(img_pts[:2], axis=1), times the number N of points
MeanTimesN(pts) == << SumRow(pts, 1, Len(pts)), SumRow(pts, 2, Len(pts)) >>

\* (2N)^2 times the variance np.std(img_pts[:2])^2 of the 2N pooled x and y
\* values: 2N * sum(v^2) - sum(v)^2
PooledVar(pts) ==
    LET n == Len(pts)
        sum == SumRow(pts, 1, n) + SumRow(pts, 2, n)
        squares == [i \in 1..n |-> << pts[i][1] * pts[i][1]
                                      + pts[i][2] * pts[i][2] >>]
    IN  2 * n * SumRow(squares, 1, n) - sum * sum

\* S^2 = 2 / np.std(img_pts[:2])^2 as a fraction, for points given in a
\* unit whose square is the fraction unit2
ScaleSquared(pts, unit2) ==
    << 8 * Len(pts) * Len(pts) * unit2[2], unit2[1] * PooledVar(pts) >>

\* The translation entries as the matrix T is specified: -S*mx and -S*my
Translation_PerAxis(pts) ==
    LET mean == MeanTimesN(pts) IN << - mean[1], - mean[2] >>

\* The entries T[0,2] and T[1,2] of lines 107-111 and 118-122, in units of
\* S / N: both are written with mean[0].
Translation(pts) ==
    LET mean == MeanTimesN(pts) IN << - mean[1], - mean[1] >>

\* T @ img_pts, the x and y rows in units of S / N
Normalize(pts) ==
    LET t == Translation(pts)
        n == Len(pts)
    IN  [i \in 1..n |-> << n * pts[i][1] + t[1] * pts[i][3],
                          n * pts[i][2] + t[2] * pts[i][3],
                          pts[i][3] >>]

\* Lines 104-112: the array is divided by its last row in place, the mean
\* and the scale are taken, T is built and applied; then the same is done
\* to the normalized points.  The normalized points are held in units of
\* S / N, those normalized again in units of S' * S / N^2.
ApplyNormalize ==
    /\ pc = "idle"
    /\ applied = "none"
    /\ matrix # NoMatrix
    /\ applied' = "normalize"
    /\ img1_pts' = Homogenize(img1_pts)
    /\ LET n == Len(img1_pts)
           S2 == ScaleSquared(img1_pts', << 1, 1 >>)
           once == Normalize(img1_pts')
       IN  result' = [kind |-> "normalized",
                      degenerate |-> StdIsZero(img1_pts'),
                      mean |-> MeanTimesN(img1_pts'),
                      scale2 |-> S2,
                      T |-> Translation(img1_pts'),
                      points |-> once,
                      again |-> [scale2 |-> ScaleSquared(once,
                                               << S2[1], S2[2] * n * n >>),
                                 T |-> Translation(once),
                                 points |-> Normalize(once)]]
    /\ UNCHANGED << img2_pts, match_threashold, max_iter, orig_pts, pc, data,
                    iterations, bestVars, sample, fit_result, candidate,
                    outcome, prev_outcome, calls, direct, fitted, scored,
                    drawn, parVars, matrix, arg,
                    coor_state >>

\* Row i of A, lines 131-139; x1[0,1] is the x of the second point.
ARow(x1, x2, i) ==
    << x1[i][1] * x2[i][1], x1[2][1] * x2[i][2], x1[i][1] * x2[i][3],
       x1[i][2] * x2[i][1], x1[i][2] * x2[i][2], x1[i][2] * x2[i][3],
       x1[i][3] * x2[i][1], x1[i][3] * x2[i][2], x1[i][3] * x2[i][3] >>

\* Lines 129-139: the coefficient matrix of the two arrays
ApplyDLT ==
    /\ pc = "idle"
    /\ applied = "none"
    /\ matrix # NoMatrix
    /\ applied' = "dlt"
    /\ result' = [kind |-> "A",
                  A |-> [i \in 1..Len(img1_pts) |->
                            ARow(img1_pts, img2_pts, i)]]
    /\ UNCHANGED << callerVars, pc, data, iterations, bestVars, sample,
                    fit_result, candidate, outcome, prev_outcome, calls,
                    direct, fitted, scored, drawn, parVars, matrix, arg,
                    coor_state >>

\* F / F[2,2], line 154: with F[2,2] = 0 every entry is inf or nan, and
\* numpy warns without raising.
Rescale(M) ==
    IF M[3][3] = 0 THEN NonFinite
    ELSE Res("matrix", [i \in 1..3 |-> [j \in 1..3 |-> M[i][j] \div M[3][3]]])

\* The last step of find_fundamental on the matrix before the division
ApplyRescale ==
    /\ pc = "idle"
    /\ applied = "none"
    /\ matrix # NoMatrix
    /\ applied' = "rescale"
    /\ result' = Rescale(matrix)
    /\ UNCHANGED << callerVars, pc, data, iterations, bestVars, sample,
                    fit_result, candidate, outcome, prev_outcome, calls,
                    direct, fitted, scored, drawn, parVars, matrix, arg,
                    coor_state >>

\* A @ B for 3x3 matrices
MatMul(A, B) ==
    [i \in 1..3 |-> [j \in 1..3 |->
        A[i][1] * B[1][j] + A[i][2] * B[2][j] + A[i][3] * B[3][j]]]

Abs(x) == IF x < 0 THEN -x ELSE x

\* The matrix has at most one entry that is not zero in each row and each
\* column: its singular values are the absolute values of these entries,
\* and the zeros of the rows without one.
Monomial(M) ==
    /\ \A i \in 1..3 : Cardinality({ j \in 1..3 : M[i][j] # 0 }) <= 1
    /\ \A j \in 1..3 : Cardinality({ i \in 1..3 : M[i][j] # 0 }) <= 1

\* Lines 146-148 on such a matrix: U, S, V = svd(F); S[2] = 0;
\* U @ diag(S) @ V is the matrix with its entry of the smallest absolute
\* value set to zero, or the matrix itself when a singular value is zero
\* already.  Of equal singular values either can come last.
ZeroSmallest(M) ==
    LET entries == { p \in (1..3) \X (1..3) : M[p[1]][p[2]] # 0 }
        least == { p \in entries :
                     \A q \in entries :
                        Abs(M[p[1]][p[2]]) <= Abs(M[q[1]][q[2]]) }
    IN  IF Cardinality(entries) < 3 THEN { M }
        ELSE { [i \in 1..3 |-> [j \in 1..3 |->
                   IF << i, j >> = p THEN 0 ELSE M[i][j]]] : p \in least }

\* The scales S = sqrt(2) / np.std(img_pts[:2]) that are whole numbers:
\* S^2 = 2 * (2N)^2 / PooledVar.
WholeScale(pts) ==
    { k \in 1..(3 * Len(pts)) :
        k * k * PooledVar(pts) = 8 * Len(pts) * Len(pts) }

\* T of lines 107-111 for points with a whole scale S and a whole S*mean[0]
TMatrix(pts) ==
    LET S == CHOOSE k \in WholeScale(pts) : TRUE
        t == (S * SumRow(pts, 1, Len(pts))) \div Len(pts)
    IN  << << S, 0, -t >>, << 0, S, -t >>, << 0, 0, 1 >> >>

HasWholeT(pts) ==
    /\ \A i \in 1..Len(pts) : pts[i][3] = 1
    /\ WholeScale(pts) # {}
    /\ \A k \in WholeScale(pts) : (k * SumRow(pts, 1, Len(pts))) % Len(pts) = 0

\* F / F[2,2] of line 154 with the quotients kept as fractions: the entries
\* F[i][j] over the common denominator F[2,2]
OverCorner(M) ==
    IF M[3][3] = 0 THEN [kind |-> "nonfinite", F |-> << >>, den |-> 0]
    ELSE [kind |-> "matrix", F |-> M, den |-> M[3][3]]

\* Lines 145-154 on the raw solution: the smallest singular value is set to
\* zero, the normalization is undone and the matrix is divided by F[2,2].
ApplyEnforce ==
    /\ pc = "idle"
    /\ applied = "none"
    /\ matrix # NoMatrix
    /\ Monomial(matrix)
    /\ HasWholeT(img1_pts)
    /\ HasWholeT(img2_pts)
    /\ applied' = "enforce"
    /\ \E F2 \in ZeroSmallest(matrix) :
         result' = OverCorner(MatMul(MatMul(Transpose(TMatrix(img1_pts)), F2),
                                     TMatrix(img2_pts)))
    /\ UNCHANGED << callerVars, pc, data, iterations, bestVars, sample,
                    fit_result, candidate, outcome, prev_outcome, calls,
                    direct, fitted, scored, drawn, parVars, matrix, arg,
                    coor_state >>

\* Lines 104-139 on point sets with w = 1 whose T has whole entries: both
\* sets are normalized and the coefficient matrix A is built from the
\* normalized points.
ApplySystem ==
    /\ pc = "idle"
    /\ applied = "none"
    /\ matrix # NoMatrix
    /\ HasWholeT(img1_pts)
    /\ HasWholeT(img2_pts)
    /\ applied' = "system"
    /\ LET T1 == TMatrix(img1_pts)
           T2 == TMatrix(img2_pts)
           x1 == [i \in 1..Len(img1_pts) |-> MatVec(T1, img1_pts[i])]
           x2 == [i \in 1..Len(img2_pts) |-> MatVec(T2, img2_pts[i])]
       IN  result' = [kind |-> "system", T1 |-> T1, T2 |-> T2,
                      A |-> [i \in 1..Len(x1) |-> ARow(x1, x2, i)]]
    /\ UNCHANGED << callerVars, pc, data, iterations, bestVars, sample,
                    fit_result, candidate, outcome, prev_outcome, calls,
                    direct, fitted, scored, drawn, parVars, matrix, arg,
                    coor_state >>

PureNext ==
    \/ ApplySystem
    \/ ApplyEnforce
    \/ ApplySampson
    \/ ApplyNormalize
    \/ ApplyDLT
    \/ ApplyRescale

SpecPure == PureInit /\ [][PureNext]_vars

\* ------------------------------------------------------------ Euler angles
\* BasicModule/euler_state.py: the 24 classes Euler{Inner,Outer}ABCState with
\* to_rot(theta1_rad, theta2_rad, theta3_rad) and from_rot(rot).
\*
\* The angles considered are the twelve in (-pi, pi] whose cosine and sine
\* are whole multiples of 1/5.  An angle is its number in -5..6 in
\* increasing order: 0 is the angle 0, 3 is pi/2, 6 is pi, -3 is -pi/2; 1 and
\* 2 are the angles of cosine 4/5 and 3/5.  The entries of a rotation are
\* kept in units of 1/5 and those of a product of three in units of 1/125.
Unit == 5
Scale == Unit * Unit * Unit

HalfPi == 3
Pi == 6
Other == 99   \* an angle that is none of the twelve

AngleNumbers == (0 - 5)..6

CosSin(k) ==
    CASE k = 0 -> << 5, 0 >>
      [] k = 1 -> << 4, 3 >>
      [] k = 2 -> << 3, 4 >>
      [] k = 3 -> << 0, 5 >>
      [] k = 4 -> << 0 - 3, 4 >>
      [] k = 5 -> << 0 - 4, 3 >>
      [] k = 6 -> << 0 - 5, 0 >>
      [] k = 0 - 1 -> << 4, 0 - 3 >>
      [] k = 0 - 2 -> << 3, 0 - 4 >>
      [] k = 0 - 3 -> << 0, 0 - 5 >>
      [] k = 0 - 4 -> << 0 - 3, 0 - 4 >>
      [] k = 0 - 5 -> << 0 - 4, 0 - 3 >>

\* ax_rot, ay_rot, az_rot of BasicModule.naive_rotation: the rotation about
\* the axis by the angle, as the products written out in the docstrings of
\* from_rot have it (R(X)R(Y)R(Z) has S(Y) in row 1, column 3).
ax_rot(k) ==
    LET c == CosSin(k)[1]
        s == CosSin(k)[2]
    IN  << << Unit, 0, 0 >>, << 0, c, 0 - s >>, << 0, s, c >> >>
ay_rot(k) ==
    LET c == CosSin(k)[1]
        s == CosSin(k)[2]
    IN  << << c, 0, s >>, << 0, Unit, 0 >>, << 0 - s, 0, c >> >>
az_rot(k) ==
    LET c == CosSin(k)[1]
        s == CosSin(k)[2]
    IN  << << c, 0 - s, 0 >>, << s, c, 0 >>, << 0, 0, Unit >> >>

AxisRot(axis, k) ==
    CASE axis = "X" -> ax_rot(k)
      [] axis = "Y" -> ay_rot(k)
      [] axis = "Z" -> az_rot(k)

\* The classes: << "Inner" or "Outer", first, second, third axis >>.
Classic ==
    { << "X", "Y", "X" >>, << "X", "Z", "X" >>, << "Y", "X", "Y" >>,
      << "Y", "Z", "Y" >>, << "Z", "X", "Z" >>, << "Z", "Y", "Z" >> }
Bryant ==
    { << "X", "Y", "Z" >>, << "X", "Z", "Y" >>, << "Y", "X", "Z" >>,
      << "Y", "Z", "X" >>, << "Z", "X", "Y" >>, << "Z", "Y", "X" >> }
Variants ==
    { << f, s[1], s[2], s[3] >> : f \in { "Inner", "Outer" },
                                 s \in Classic \cup Bryant }

\* to_rot of each of the 24 classes: the three factors of the product, from
\* the left, each an axis and the number of the angle it is given.
Factors(v) ==
    CASE v = << "Inner", "X", "Y", "X" >> -> << << "X", 1 >>, << "Y", 2 >>, << "X", 3 >> >>
      [] v = << "Inner", "X", "Z", "X" >> -> << << "X", 1 >>, << "Z", 2 >>, << "X", 3 >> >>
      [] v = << "Inner", "Y", "X", "Y" >> -> << << "Y", 1 >>, << "X", 2 >>, << "Y", 3 >> >>
      [] v = << "Inner", "Y", "Z", "Y" >> -> << << "Y", 1 >>, << "Z", 2 >>, << "Y", 3 >> >>
      [] v = << "Inner", "Z", "X", "Z" >> -> << << "Z", 1 >>, << "X", 2 >>, << "Z", 3 >> >>
      [] v = << "Inner", "Z", "Y", "Z" >> -> << << "Z", 1 >>, << "Y", 2 >>, << "Z", 3 >> >>
      [] v = << "Inner", "X", "Y", "Z" >> -> << << "X", 1 >>, << "Y", 2 >>, << "Z", 3 >> >>
      [] v = << "Inner", "X", "Z", "Y" >> -> << << "X", 1 >>, << "Z", 2 >>, << "Y", 3 >> >>
      [] v = << "Inner", "Y", "X", "Z" >> -> << << "Y", 1 >>, << "X", 2 >>, << "Z", 3 >> >>
      [] v = << "Inner", "Y", "Z", "X" >> -> << << "Y", 1 >>, << "Z", 2 >>, << "X", 3 >> >>
      [] v = << "Inner", "Z", "X", "Y" >> -> << << "Z", 1 >>, << "X", 2 >>, << "Y", 3 >> >>
      [] v = << "Inner", "Z", "Y", "X" >> -> << << "Z", 1 >>, << "Y", 2 >>, << "X", 3 >> >>
      [] v = << "Outer", "X", "Y", "X" >> -> << << "X", 3 >>, << "Y", 2 >>, << "X", 1 >> >>
      [] v = << "Outer", "X", "Z", "X" >> -> << << "X", 3 >>, << "Z", 2 >>, << "X", 1 >> >>
      [] v = << "Outer", "Y", "X", "Y" >> -> << << "Y", 3 >>, << "X", 2 >>, << "Y", 1 >> >>
      [] v = << "Outer", "Y", "Z", "Y" >> -> << << "Y", 3 >>, << "Z", 2 >>, << "Y", 1 >> >>
      [] v = << "Outer", "Z", "X", "Z" >> -> << << "Z", 3 >>, << "X", 2 >>, << "Z", 1 >> >>
      [] v = << "Outer", "Z", "Y", "Z" >> -> << << "Z", 3 >>, << "Y", 2 >>, << "Z", 1 >> >>
      [] v = << "Outer", "X", "Y", "Z" >> -> << << "Z", 3 >>, << "Y", 2 >>, << "X", 1 >> >>
      [] v = << "Outer", "X", "Z", "Y" >> -> << << "Y", 3 >>, << "Z", 2 >>, << "X", 1 >> >>
      [] v = << "Outer", "Y", "X", "Z" >> -> << << "Z", 3 >>, << "X", 2 >>, << "Y", 1 >> >>
      [] v = << "Outer", "Y", "Z", "X" >> -> << << "X", 3 >>, << "Z", 2 >>, << "Y", 1 >> >>
      [] v = << "Outer", "Z", "X", "Y" >> -> << << "Y", 3 >>, << "X", 2 >>, << "Z", 1 >> >>
      [] v = << "Outer", "Z", "Y", "X" >> -> << << "X", 3 >>, << "Y", 2 >>, << "Z", 1 >> >>

\* from_rot of each of the 24 classes: the entry tested for the gimbal lock
\* with the number added to it in the first and in the second test, and the
\* three angles returned by the first branch, the second branch and the
\* general branch, in the order of the returned tuple.
Branches(v) ==
    CASE v = << "Inner", "X", "Y", "X" >> ->
         [test1 |-> << 1, 1, -1 >>, test2 |-> << 1, 1, 1 >>,
          lock1 |->
              << [fn |-> "atan2", neg |-> 1, y |-> << 1, 3, 2 >>, x |-> << 1, 2, 2 >>, deg |-> FALSE],
                 [fn |-> "zero", neg |-> 1, y |-> << 1, 1, 1 >>, x |-> << 1, 1, 1 >>, deg |-> FALSE],
                 [fn |-> "zero", neg |-> 1, y |-> << 1, 1, 1 >>, x |-> << 1, 1, 1 >>, deg |-> FALSE] >>,
          lock2 |->
              << [fn |-> "atan2", neg |-> 1, y |-> << 1, 3, 2 >>, x |-> << 1, 2, 2 >>, deg |-> FALSE],
                 [fn |-> "pi", neg |-> 1, y |-> << 1, 1, 1 >>, x |-> << 1, 1, 1 >>, deg |-> FALSE],
                 [fn |-> "zero", neg |-> 1, y |-> << 1, 1, 1 >>, x |-> << 1, 1, 1 >>, deg |-> FALSE] >>,
          general |->
              << [fn |-> "atan2", neg |-> 1, y |-> << 1, 2, 1 >>, x |-> << -1, 3, 1 >>, deg |-> FALSE],
                 [fn |-> "acos", neg |-> 1, y |-> << 1, 1, 1 >>, x |-> << 1, 1, 1 >>, deg |-> FALSE],
                 [fn |-> "atan2", neg |-> 1, y |-> << 1, 1, 2 >>, x |-> << 1, 1, 3 >>, deg |-> FALSE] >>]
      [] v = << "Inner", "X", "Z", "X" >> ->
         [test1 |-> << 1, 1, -1 >>, test2 |-> << 1, 1, 1 >>,
          lock1 |->
              << [fn |-> "atan2", neg |-> 1, y |-> << 1, 3, 2 >>, x |-> << 1, 2, 2 >>, deg |-> FALSE],
                 [fn |-> "zero", neg |-> 1, y |-> << 1, 1, 1 >>, x |-> << 1, 1, 1 >>, deg |-> FALSE],
                 [fn |-> "zero", neg |-> 1, y |-> << 1, 1, 1 >>, x |-> << 1, 1, 1 >>, deg |-> FALSE] >>,
          lock2 |->
              << [fn |-> "atan2", neg |-> 1, y |-> << 1, 3, 2 >>, x |-> << 1, 2, 2 >>, deg |-> FALSE],
                 [fn |-> "pi", neg |-> 1, y |-> << 1, 1, 1 >>, x |-> << 1, 1, 1 >>, deg |-> FALSE],
                 [fn |-> "zero", neg |-> 1, y |-> << 1, 1, 1 >>, x |-> << 1, 1, 1 >>, deg |-> FALSE] >>,
          general |->
              << [fn |-> "atan2", neg |-> 1, y |-> << 1, 3, 1 >>, x |-> << 1, 2, 1 >>, deg |-> FALSE],
                 [fn |-> "acos", neg |-> 1, y |-> << 1, 1, 1 >>, x |-> << 1, 1, 1 >>, deg |-> FALSE],
                 [fn |-> "atan2", neg |-> 1, y |-> << 1, 1, 3 >>, x |-> << -1, 1, 2 >>, deg |-> FALSE] >>]
      [] v = << "Inner", "Y", "X", "Y" >> ->
         [test1 |-> << 2, 2, -1 >>, test2 |-> << 2, 2, 1 >>,
          lock1 |->
              << [fn |-> "atan2", neg |-> 1, y |-> << 1, 1, 3 >>, x |-> << 1, 3, 3 >>, deg |-> FALSE],
                 [fn |-> "zero", neg |-> 1, y |-> << 1, 1, 1 >>, x |-> << 1, 1, 1 >>, deg |-> FALSE],
                 [fn |-> "zero", neg |-> 1, y |-> << 1, 1, 1 >>, x |-> << 1, 1, 1 >>, deg |-> FALSE] >>,
          lock2 |->
              << [fn |-> "atan2", neg |-> 1, y |-> << 1, 1, 3 >>, x |-> << 1, 3, 3 >>, deg |-> FALSE],
                 [fn |-> "pi", neg |-> 1, y |-> << 1, 1, 1 >>, x |-> << 1, 1, 1 >>, deg |-> FALSE],
                 [fn |-> "zero", neg |-> 1, y |-> << 1, 1, 1 >>, x |-> << 1, 1, 1 >>, deg |-> FALSE] >>,
          general |->
              << [fn |-> "atan2", neg |-> 1, y |-> << 1, 1, 2 >>, x |-> << 1, 3, 2 >>, deg |-> FALSE],
                 [fn |-> "acos", neg |-> 1, y |-> << 1, 2, 2 >>, x |-> << 1, 1, 1 >>, deg |-> FALSE],
                 [fn |-> "atan2", neg |-> 1, y |-> << 1, 2, 1 >>, x |-> << -1, 2, 3 >>, deg |-> FALSE] >>]
      [] v = << "Inner", "Y", "Z", "Y" >> ->
         [test1 |-> << 2, 2, -1 >>, test2 |-> << 2, 2, 1 >>,
          lock1 |->
              << [fn |-> "atan2", neg |-> 1, y |-> << 1, 1, 3 >>, x |-> << 1, 3, 3 >>, deg |-> FALSE],
                 [fn |-> "zero", neg |-> 1, y |-> << 1, 1, 1 >>, x |-> << 1, 1, 1 >>, deg |-> FALSE],
                 [fn |-> "zero", neg |-> 1, y |-> << 1, 1, 1 >>, x |-> << 1, 1, 1 >>, deg |-> FALSE] >>,
          lock2 |->
              << [fn |-> "atan2", neg |-> 1, y |-> << 1, 1, 3 >>, x |-> << 1, 3, 3 >>, deg |-> FALSE],
                 [fn |-> "pi", neg |-> 1, y |-> << 1, 1, 1 >>, x |-> << 1, 1, 1 >>, deg |-> FALSE],
                 [fn |-> "zero", neg |-> 1, y |-> << 1, 1, 1 >>, x |-> << 1, 1, 1 >>, deg |-> FALSE] >>,
          general |->
              << [fn |-> "atan2", neg |-> 1, y |-> << 1, 3, 2 >>, x |-> << -1, 1, 2 >>, deg |-> FALSE],
                 [fn |-> "acos", neg |-> 1, y |-> << 1, 2, 2 >>, x |-> << 1, 1, 1 >>, deg |-> FALSE],
                 [fn |-> "atan2", neg |-> 1, y |-> << 1, 2, 3 >>, x |-> << 1, 2, 1 >>, deg |-> FALSE] >>]
      [] v = << "Inner", "Z", "X", "Z" >> ->
         [test1 |-> << 3, 3, -1 >>, test2 |-> << 3, 3, 1 >>,
          lock1 |->
              << [fn |-> "atan2", neg |-> 1, y |-> << 1, 2, 2 >>, x |-> << 1, 1, 1 >>, deg |-> FALSE],
                 [fn |-> "zero", neg |-> 1, y |-> << 1, 1, 1 >>, x |-> << 1, 1, 1 >>, deg |-> FALSE],
                 [fn |-> "zero", neg |-> 1, y |-> << 1, 1, 1 >>, x |-> << 1, 1, 1 >>, deg |-> FALSE] >>,
          lock2 |->
              << [fn |-> "atan2", neg |-> 1, y |-> << 1, 2, 2 >>, x |-> << 1, 1, 1 >>, deg |-> FALSE],
                 [fn |-> "pi", neg |-> 1, y |-> << 1, 1, 1 >>, x |-> << 1, 1, 1 >>, deg |-> FALSE],
                 [fn |-> "zero", neg |-> 1, y |-> << 1, 1, 1 >>, x |-> << 1, 1, 1 >>, deg |-> FALSE] >>,
          general |->
              << [fn |-> "atan2", neg |-> 1, y |-> << 1, 1, 3 >>, x |-> << -1, 2, 3 >>, deg |-> FALSE],
                 [fn |-> "acos", neg |-> 1, y |-> << 1, 3, 3 >>, x |-> << 1, 1, 1 >>, deg |-> FALSE],
                 [fn |-> "atan2", neg |-> 1, y |-> << 1, 3, 1 >>, x |-> << 1, 3, 2 >>, deg |-> FALSE] >>]
      [] v = << "Inner", "Z", "Y", "Z" >> ->
         [test1 |-> << 3, 3, -1 >>, test2 |-> << 3, 3, 1 >>,
          lock1 |->
              << [fn |-> "atan2", neg |-> 1, y |-> << 1, 2, 1 >>, x |-> << 1, 1, 1 >>, deg |-> TRUE],
                 [fn |-> "zero", neg |-> 1, y |-> << 1, 1, 1 >>, x |-> << 1, 1, 1 >>, deg |-> FALSE],
                 [fn |-> "zero", neg |-> 1, y |-> << 1, 1, 1 >>, x |-> << 1, 1, 1 >>, deg |-> FALSE] >>,
          lock2 |->
              << [fn |-> "atan2", neg |-> 1, y |-> << 1, 2, 1 >>, x |-> << 1, 1, 1 >>, deg |-> TRUE],
                 [fn |-> "pi", neg |-> 1, y |-> << 1, 1, 1 >>, x |-> << 1, 1, 1 >>, deg |-> TRUE],
                 [fn |-> "zero", neg |-> 1, y |-> << 1, 1, 1 >>, x |-> << 1, 1, 1 >>, deg |-> FALSE] >>,
          general |->
              << [fn |-> "atan2", neg |-> 1, y |-> << 1, 2, 3 >>, x |-> << 1, 1, 3 >>, deg |-> TRUE],
                 [fn |-> "acos", neg |-> 1, y |-> << 1, 3, 3 >>, x |-> << 1, 1, 1 >>, deg |-> TRUE],
                 [fn |-> "atan2", neg |-> 1, y |-> << 1, 3, 2 >>, x |-> << -1, 3, 1 >>, deg |-> TRUE] >>]
      [] v = << "Inner", "X", "Y", "Z" >> ->
         [test1 |-> << 1, 3, -1 >>, test2 |-> << 1, 3, 1 >>,
          lock1 |->
              << [fn |-> "atan2", neg |-> 1, y |-> << 1, 3, 2 >>, x |-> << 1, 2, 2 >>, deg |-> FALSE],
                 [fn |-> "half_pi", neg |-> 1, y |-> << 1, 1, 1 >>, x |-> << 1, 1, 1 >>, deg |-> FALSE],
                 [fn |-> "zero", neg |-> 1, y |-> << 1, 1, 1 >>, x |-> << 1, 1, 1 >>, deg |-> FALSE] >>,
          lock2 |->
              << [fn |-> "atan2", neg |-> 1, y |-> << 1, 3, 2 >>, x |-> << 1, 2, 2 >>, deg |-> FALSE],
                 [fn |-> "half_pi", neg |-> -1, y |-> << 1, 1, 1 >>, x |-> << 1, 1, 1 >>, deg |-> FALSE],
                 [fn |-> "zero", neg |-> 1, y |-> << 1, 1, 1 >>, x |-> << 1, 1, 1 >>, deg |-> FALSE] >>,
          general |->
              << [fn |-> "atan2", neg |-> 1, y |-> << -1, 2, 3 >>, x |-> << 1, 3, 3 >>, deg |-> FALSE],
                 [fn |-> "asin", neg |-> 1, y |-> << 1, 1, 3 >>, x |-> << 1, 1, 1 >>, deg |-> FALSE],
                 [fn |-> "atan2", neg |-> 1, y |-> << -1, 1, 2 >>, x |-> << 1, 1, 1 >>, deg |-> FALSE] >>]
      [] v = << "Inner", "X", "Z", "Y" >> ->
         [test1 |-> << 1, 2, -1 >>, test2 |-> << 1, 2, 1 >>,
          lock1 |->
              << [fn |-> "atan2", neg |-> 1, y |-> << 1, 3, 1 >>, x |-> << 1, 2, 1 >>, deg |-> FALSE],
                 [fn |-> "half_pi", neg |-> -1, y |-> << 1, 1, 1 >>, x |-> << 1, 1, 1 >>, deg |-> FALSE],
                 [fn |-> "zero", neg |-> 1, y |-> << 1, 1, 1 >>, x |-> << 1, 1, 1 >>, deg |-> FALSE] >>,
          lock2 |->
              << [fn |-> "atan2", neg |-> 1, y |-> << 1, 3, 1 >>, x |-> << 1, 2, 1 >>, deg |-> FALSE],
                 [fn |-> "half_pi", neg |-> 1, y |-> << 1, 1, 1 >>, x |-> << 1, 1, 1 >>, deg |-> FALSE],
                 [fn |-> "zero", neg |-> 1, y |-> << 1, 1, 1 >>, x |-> << 1, 1, 1 >>, deg |-> FALSE] >>,
          general |->
              << [fn |-> "atan2", neg |-> 1, y |-> << 1, 3, 2 >>, x |-> << 1, 2, 2 >>, deg |-> FALSE],
                 [fn |-> "asin", neg |-> -1, y |-> << 1, 1, 2 >>, x |-> << 1, 1, 1 >>, deg |-> FALSE],
                 [fn |-> "atan2", neg |-> 1, y |-> << 1, 1, 3 >>, x |-> << 1, 1, 1 >>, deg |-> FALSE] >>]
      [] v = << "Inner", "Y", "X", "Z" >> ->
         [test1 |-> << 2, 3, 0 >>, test2 |-> << 2, 3, 1 >>,
          lock1 |->
              << [fn |-> "atan2", neg |-> 1, y |-> << 1, 1, 2 >>, x |-> << 1, 3, 2 >>, deg |-> FALSE],
                 [fn |-> "half_pi", neg |-> -1, y |-> << 1, 1, 1 >>, x |-> << 1, 1, 1 >>, deg |-> FALSE],
                 [fn |-> "zero", neg |-> 1, y |-> << 1, 1, 1 >>, x |-> << 1, 1, 1 >>, deg |-> FALSE] >>,
          lock2 |->
              << [fn |-> "atan2", neg |-> 1, y |-> << 1, 1, 2 >>, x |-> << 1, 3, 2 >>, deg |-> FALSE],
                 [fn |-> "half_pi", neg |-> 1, y |-> << 1, 1, 1 >>, x |-> << 1, 1, 1 >>, deg |-> FALSE],
                 [fn |-> "zero", neg |-> 1, y |-> << 1, 1, 1 >>, x |-> << 1, 1, 1 >>, deg |-> FALSE] >>,
          general |->
              << [fn |-> "atan2", neg |-> 1, y |-> << 1, 1, 3 >>, x |-> << 1, 3, 3 >>, deg |-> FALSE],
                 [fn |-> "asin", neg |-> -1, y |-> << 1, 2, 3 >>, x |-> << 1, 1, 1 >>, deg |-> FALSE],
                 [fn |-> "atan2", neg |-> 1, y |-> << 1, 2, 1 >>, x |-> << 1, 2, 2 >>, deg |-> FALSE] >>]
      [] v = << "Inner", "Y", "Z", "X" >> ->
         [test1 |-> << 2, 1, -1 >>, test2 |-> << 2, 1, 1 >>,
          lock1 |->
              << [fn |-> "atan2", neg |-> 1, y |-> << 1, 1, 3 >>, x |-> << 1, 3, 3 >>, deg |-> FALSE],
                 [fn |-> "half_pi", neg |-> 1, y |-> << 1, 1, 1 >>, x |-> << 1, 1, 1 >>, deg |-> FALSE],
                 [fn |-> "zero", neg |-> 1, y |-> << 1, 1, 1 >>, x |-> << 1, 1, 1 >>, deg |-> FALSE] >>,
          lock2 |->
              << [fn |-> "atan2", neg |-> 1, y |-> << 1, 1, 3 >>, x |-> << 1, 3, 3 >>, deg |-> FALSE],
                 [fn |-> "pi_2", neg |-> -1, y |-> << 1, 1, 1 >>, x |-> << 1, 1, 1 >>, deg |-> FALSE],
                 [fn |-> "zero", neg |-> 1, y |-> << 1, 1, 1 >>, x |-> << 1, 1, 1 >>, deg |-> FALSE] >>,
          general |->
              << [fn |-> "atan2", neg |-> 1, y |-> << -1, 3, 1 >>, x |-> << 1, 1, 1 >>, deg |-> FALSE],
                 [fn |-> "asin", neg |-> 1, y |-> << 1, 2, 1 >>, x |-> << 1, 1, 1 >>, deg |-> FALSE],
                 [fn |-> "atan2", neg |-> 1, y |-> << -1, 2, 3 >>, x |-> << 1, 2, 2 >>, deg |-> FALSE] >>]
      [] v = << "Inner", "Z", "X", "Y" >> ->
         [test1 |-> << 3, 2, -1 >>, test2 |-> << 3, 2, 1 >>,
          lock1 |->
              << [fn |-> "atan2", neg |-> 1, y |-> << 1, 2, 1 >>, x |-> << 1, 1, 1 >>, deg |-> FALSE],
                 [fn |-> "half_pi", neg |-> 1, y |-> << 1, 1, 1 >>, x |-> << 1, 1, 1 >>, deg |-> FALSE],
                 [fn |-> "zero", neg |-> 1, y |-> << 1, 1, 1 >>, x |-> << 1, 1, 1 >>, deg |-> FALSE] >>,
          lock2 |->
              << [fn |-> "atan2", neg |-> 1, y |-> << 1, 2, 1 >>, x |-> << 1, 1, 1 >>, deg |-> FALSE],
                 [fn |-> "half_pi", neg |-> -1, y |-> << 1, 1, 1 >>, x |-> << 1, 1, 1 >>, deg |-> FALSE],
                 [fn |-> "zero", neg |-> 1, y |-> << 1, 1, 1 >>, x |-> << 1, 1, 1 >>, deg |-> FALSE] >>,
          general |->
              << [fn |-> "atan2", neg |-> 1, y |-> << -1, 1, 2 >>, x |-> << 1, 2, 2 >>, deg |-> FALSE],
                 [fn |-> "asin", neg |-> 1, y |-> << 1, 3, 2 >>, x |-> << 1, 1, 1 >>, deg |-> FALSE],
                 [fn |-> "atan2", neg |-> 1, y |-> << -1, 3, 1 >>, x |-> << 1, 3, 3 >>, deg |-> FALSE] >>]
      [] v = << "Inner", "Z", "Y", "X" >> ->
         [test1 |-> << 3, 1, -1 >>, test2 |-> << 3, 1, 1 >>,
          lock1 |->
              << [fn |-> "atan2", neg |-> 1, y |-> << 1, 2, 3 >>, x |-> << 1, 1, 3 >>, deg |-> FALSE],
                 [fn |-> "half_pi", neg |-> -1, y |-> << 1, 1, 1 >>, x |-> << 1, 1, 1 >>, deg |-> FALSE],
                 [fn |-> "zero", neg |-> 1, y |-> << 1, 1, 1 >>, x |-> << 1, 1, 1 >>, deg |-> FALSE] >>,
          lock2 |->
              << [fn |-> "atan2", neg |-> 1, y |-> << 1, 2, 3 >>, x |-> << 1, 1, 3 >>, deg |-> FALSE],
                 [fn |-> "half_pi", neg |-> 1, y |-> << 1, 1, 1 >>, x |-> << 1, 1, 1 >>, deg |-> FALSE],
                 [fn |-> "zero", neg |-> 1, y |-> << 1, 1, 1 >>, x |-> << 1, 1, 1 >>, deg |-> FALSE] >>,
          general |->
              << [fn |-> "atan2", neg |-> 1, y |-> << 1, 2, 1 >>, x |-> << 1, 1, 1 >>, deg |-> FALSE],
                 [fn |-> "asin", neg |-> -1, y |-> << 1, 3, 1 >>, x |-> << 1, 1, 1 >>, deg |-> FALSE],
                 [fn |-> "atan2", neg |-> 1, y |-> << 1, 3, 2 >>, x |-> << 1, 3, 3 >>, deg |-> FALSE] >>]
      [] v = << "Outer", "X", "Y", "X" >> ->
         [test1 |-> << 1, 1, -1 >>, test2 |-> << 1, 1, 1 >>,
          lock1 |->
              << [fn |-> "atan2", neg |-> 1, y |-> << 1, 3, 2 >>, x |-> << 1, 2, 2 >>, deg |-> FALSE],
                 [fn |-> "zero", neg |-> 1, y |-> << 1, 1, 1 >>, x |-> << 1, 1, 1 >>, deg |-> FALSE],
                 [fn |-> "zero", neg |-> 1, y |-> << 1, 1, 1 >>, x |-> << 1, 1, 1 >>, deg |-> FALSE] >>,
          lock2 |->
              << [fn |-> "atan2", neg |-> 1, y |-> << -1, 3, 2 >>, x |-> << 1, 2, 2 >>, deg |-> FALSE],
                 [fn |-> "pi", neg |-> 1, y |-> << 1, 1, 1 >>, x |-> << 1, 1, 1 >>, deg |-> FALSE],
                 [fn |-> "zero", neg |-> 1, y |-> << 1, 1, 1 >>, x |-> << 1, 1, 1 >>, deg |-> FALSE] >>,
          general |->
              << [fn |-> "atan2", neg |-> 1, y |-> << 1, 1, 2 >>, x |-> << 1, 1, 3 >>, deg |-> FALSE],
                 [fn |-> "acos", neg |-> 1, y |-> << 1, 1, 1 >>, x |-> << 1, 1, 1 >>, deg |-> FALSE],
                 [fn |-> "atan2", neg |-> 1, y |-> << 1, 2, 1 >>, x |-> << -1, 3, 1 >>, deg |-> FALSE] >>]
      [] v = << "Outer", "X", "Z", "X" >> ->
         [test1 |-> << 1, 1, -1 >>, test2 |-> << 1, 1, 1 >>,
          lock1 |->
              << [fn |-> "atan2", neg |-> 1, y |-> << 1, 3, 2 >>, x |-> << 1, 2, 2 >>, deg |-> FALSE],
                 [fn |-> "zero", neg |-> 1, y |-> << 1, 1, 1 >>, x |-> << 1, 1, 1 >>, deg |-> FALSE],
                 [fn |-> "zero", neg |-> 1, y |-> << 1, 1, 1 >>, x |-> << 1, 1, 1 >>, deg |-> FALSE] >>,
          lock2 |->
              << [fn |-> "atan2", neg |-> 1, y |-> << 1, 3, 2 >>, x |-> << -1, 2, 2 >>, deg |-> FALSE],
                 [fn |-> "pi", neg |-> 1, y |-> << 1, 1, 1 >>, x |-> << 1, 1, 1 >>, deg |-> FALSE],
                 [fn |-> "zero", neg |-> 1, y |-> << 1, 1, 1 >>, x |-> << 1, 1, 1 >>, deg |-> FALSE] >>,
          general |->
              << [fn |-> "atan2", neg |-> 1, y |-> << 1, 1, 3 >>, x |-> << -1, 1, 2 >>, deg |-> FALSE],
                 [fn |-> "acos", neg |-> 1, y |-> << 1, 1, 1 >>, x |-> << 1, 1, 1 >>, deg |-> FALSE],
                 [fn |-> "atan2", neg |-> 1, y |-> << 1, 3, 1 >>, x |-> << 1, 2, 1 >>, deg |-> FALSE] >>]
      [] v = << "Outer", "Y", "X", "Y" >> ->
         [test1 |-> << 2, 2, -1 >>, test2 |-> << 2, 2, 1 >>,
          lock1 |->
              << [fn |-> "atan2", neg |-> 1, y |-> << 1, 1, 3 >>, x |-> << 1, 3, 3 >>, deg |-> FALSE],
                 [fn |-> "zero", neg |-> 1, y |-> << 1, 1, 1 >>, x |-> << 1, 1, 1 >>, deg |-> FALSE],
                 [fn |-> "zero", neg |-> 1, y |-> << 1, 1, 1 >>, x |-> << 1, 1, 1 >>, deg |-> FALSE] >>,
          lock2 |->
              << [fn |-> "atan2", neg |-> 1, y |-> << 1, 1, 3 >>, x |-> << -1, 3, 3 >>, deg |-> FALSE],
                 [fn |-> "pi", neg |-> 1, y |-> << 1, 1, 1 >>, x |-> << 1, 1, 1 >>, deg |-> FALSE],
                 [fn |-> "zero", neg |-> 1, y |-> << 1, 1, 1 >>, x |-> << 1, 1, 1 >>, deg |-> FALSE] >>,
          general |->
              << [fn |-> "atan2", neg |-> 1, y |-> << 1, 2, 1 >>, x |-> << -1, 2, 3 >>, deg |-> FALSE],
                 [fn |-> "acos", neg |-> 1, y |-> << 1, 2, 2 >>, x |-> << 1, 1, 1 >>, deg |-> FALSE],
                 [fn |-> "atan2", neg |-> 1, y |-> << 1, 1, 2 >>, x |-> << 1, 3, 2 >>, deg |-> FALSE] >>]
      [] v = << "Outer", "Y", "Z", "Y" >> ->
         [test1 |-> << 2, 2, -1 >>, test2 |-> << 2, 2, 1 >>,
          lock1 |->
              << [fn |-> "atan2", neg |-> 1, y |-> << 1, 1, 3 >>, x |-> << 1, 3, 3 >>, deg |-> FALSE],
                 [fn |-> "zero", neg |-> 1, y |-> << 1, 1, 1 >>, x |-> << 1, 1, 1 >>, deg |-> FALSE],
                 [fn |-> "zero", neg |-> 1, y |-> << 1, 1, 1 >>, x |-> << 1, 1, 1 >>, deg |-> FALSE] >>,
          lock2 |->
              << [fn |-> "atan2", neg |-> 1, y |-> << -1, 1, 3 >>, x |-> << 1, 3, 3 >>, deg |-> FALSE],
                 [fn |-> "pi", neg |-> 1, y |-> << 1, 1, 1 >>, x |-> << 1, 1, 1 >>, deg |-> FALSE],
                 [fn |-> "zero", neg |-> 1, y |-> << 1, 1, 1 >>, x |-> << 1, 1, 1 >>, deg |-> FALSE] >>,
          general |->
              << [fn |-> "atan2", neg |-> 1, y |-> << 1, 2, 3 >>, x |-> << 1, 2, 1 >>, deg |-> FALSE],
                 [fn |-> "acos", neg |-> 1, y |-> << 1, 2, 2 >>, x |-> << 1, 1, 1 >>, deg |-> FALSE],
                 [fn |-> "atan2", neg |-> 1, y |-> << 1, 3, 2 >>, x |-> << -1, 1, 2 >>, deg |-> FALSE] >>]
      [] v = << "Outer", "Z", "X", "Z" >> ->
         [test1 |-> << 3, 3, -1 >>, test2 |-> << 3, 3, 1 >>,
          lock1 |->
              << [fn |-> "atan2", neg |-> 1, y |-> << 1, 2, 2 >>, x |-> << 1, 1, 1 >>, deg |-> FALSE],
                 [fn |-> "zero", neg |-> 1, y |-> << 1, 1, 1 >>, x |-> << 1, 1, 1 >>, deg |-> FALSE],
                 [fn |-> "zero", neg |-> 1, y |-> << 1, 1, 1 >>, x |-> << 1, 1, 1 >>, deg |-> FALSE] >>,
          lock2 |->
              << [fn |-> "atan2", neg |-> 1, y |-> << -1, 2, 2 >>, x |-> << 1, 1, 1 >>, deg |-> FALSE],
                 [fn |-> "pi", neg |-> 1, y |-> << 1, 1, 1 >>, x |-> << 1, 1, 1 >>, deg |-> FALSE],
                 [fn |-> "zero", neg |-> 1, y |-> << 1, 1, 1 >>, x |-> << 1, 1, 1 >>, deg |-> FALSE] >>,
          general |->
              << [fn |-> "atan2", neg |-> 1, y |-> << 1, 3, 1 >>, x |-> << 1, 3, 2 >>, deg |-> FALSE],
                 [fn |-> "acos", neg |-> 1, y |-> << 1, 3, 3 >>, x |-> << 1, 1, 1 >>, deg |-> FALSE],
                 [fn |-> "atan2", neg |-> 1, y |-> << 1, 1, 3 >>, x |-> << -1, 2, 3 >>, deg |-> FALSE] >>]
      [] v = << "Outer", "Z", "Y", "Z" >> ->
         [test1 |-> << 3, 3, -1 >>, test2 |-> << 3, 3, 1 >>,
          lock1 |->
              << [fn |-> "atan2", neg |-> 1, y |-> << 1, 2, 1 >>, x |-> << 1, 1, 1 >>, deg |-> FALSE],
                 [fn |-> "zero", neg |-> 1, y |-> << 1, 1, 1 >>, x |-> << 1, 1, 1 >>, deg |-> FALSE],
                 [fn |-> "zero", neg |-> 1, y |-> << 1, 1, 1 >>, x |-> << 1, 1, 1 >>, deg |-> FALSE] >>,
          lock2 |->
              << [fn |-> "atan2", neg |-> 1, y |-> << 1, 2, 1 >>, x |-> << -1, 1, 1 >>, deg |-> FALSE],
                 [fn |-> "pi", neg |-> 1, y |-> << 1, 1, 1 >>, x |-> << 1, 1, 1 >>, deg |-> FALSE],
                 [fn |-> "zero", neg |-> 1, y |-> << 1, 1, 1 >>, x |-> << 1, 1, 1 >>, deg |-> FALSE] >>,
          general |->
              << [fn |-> "atan2", neg |-> 1, y |-> << 1, 3, 2 >>, x |-> << -1, 3, 1 >>, deg |-> FALSE],
                 [fn |-> "acos", neg |-> 1, y |-> << 1, 3, 3 >>, x |-> << 1, 1, 1 >>, deg |-> FALSE],
                 [fn |-> "atan2", neg |-> 1, y |-> << 1, 2, 3 >>, x |-> << 1, 1, 3 >>, deg |-> FALSE] >>]
      [] v = << "Outer", "X", "Y", "Z" >> ->
         [test1 |-> << 3, 1, -1 >>, test2 |-> << 3, 1, 1 >>,
          lock1 |->
              << [fn |-> "atan2", neg |-> 1, y |-> << 1, 2, 1 >>, x |-> << 1, 1, 1 >>, deg |-> FALSE],
                 [fn |-> "half_pi", neg |-> -1, y |-> << 1, 1, 1 >>, x |-> << 1, 1, 1 >>, deg |-> FALSE],
                 [fn |-> "zero", neg |-> 1, y |-> << 1, 1, 1 >>, x |-> << 1, 1, 1 >>, deg |-> FALSE] >>,
          lock2 |->
              << [fn |-> "atan2", neg |-> 1, y |-> << 1, 2, 1 >>, x |-> << 1, 1, 1 >>, deg |-> FALSE],
                 [fn |-> "half_pi", neg |-> 1, y |-> << 1, 1, 1 >>, x |-> << 1, 1, 1 >>, deg |-> FALSE],
                 [fn |-> "zero", neg |-> 1, y |-> << 1, 1, 1 >>, x |-> << 1, 1, 1 >>, deg |-> FALSE] >>,
          general |->
              << [fn |-> "atan2", neg |-> 1, y |-> << 1, 3, 2 >>, x |-> << 1, 3, 3 >>, deg |-> FALSE],
                 [fn |-> "asin", neg |-> -1, y |-> << 1, 3, 1 >>, x |-> << 1, 1, 1 >>, deg |-> FALSE],
                 [fn |-> "atan2", neg |-> 1, y |-> << 1, 2, 1 >>, x |-> << 1, 1, 1 >>, deg |-> FALSE] >>]
      [] v = << "Outer", "X", "Z", "Y" >> ->
         [test1 |-> << 2, 1, -1 >>, test2 |-> << 2, 1, 1 >>,
          lock1 |->
              << [fn |-> "atan2", neg |-> 1, y |-> << 1, 1, 1 >>, x |-> << 1, 3, 3 >>, deg |-> FALSE],
                 [fn |-> "half_pi", neg |-> 1, y |-> << 1, 1, 1 >>, x |-> << 1, 1, 1 >>, deg |-> FALSE],
                 [fn |-> "zero", neg |-> 1, y |-> << 1, 1, 1 >>, x |-> << 1, 1, 1 >>, deg |-> FALSE] >>,
          lock2 |->
              << [fn |-> "atan2", neg |-> 1, y |-> << -1, 1, 1 >>, x |-> << 1, 3, 3 >>, deg |-> FALSE],
                 [fn |-> "half_pi", neg |-> -1, y |-> << 1, 1, 1 >>, x |-> << 1, 1, 1 >>, deg |-> FALSE],
                 [fn |-> "zero", neg |-> 1, y |-> << 1, 1, 1 >>, x |-> << 1, 1, 1 >>, deg |-> FALSE] >>,
          general |->
              << [fn |-> "atan2", neg |-> 1, y |-> << -1, 2, 3 >>, x |-> << 1, 2, 2 >>, deg |-> FALSE],
                 [fn |-> "asin", neg |-> 1, y |-> << 1, 2, 1 >>, x |-> << 1, 1, 1 >>, deg |-> FALSE],
                 [fn |-> "atan2", neg |-> 1, y |-> << -1, 3, 1 >>, x |-> << 1, 1, 1 >>, deg |-> FALSE] >>]
      [] v = << "Outer", "Y", "X", "Z" >> ->
         [test1 |-> << 3, 2, -1 >>, test2 |-> << 3, 2, 1 >>,
          lock1 |->
              << [fn |-> "atan2", neg |-> 1, y |-> << 1, 2, 1 >>, x |-> << 1, 1, 1 >>, deg |-> FALSE],
                 [fn |-> "half_pi", neg |-> 1, y |-> << 1, 1, 1 >>, x |-> << 1, 1, 1 >>, deg |-> FALSE],
                 [fn |-> "zero", neg |-> 1, y |-> << 1, 1, 1 >>, x |-> << 1, 1, 1 >>, deg |-> FALSE] >>,
          lock2 |->
              << [fn |-> "atan2", neg |-> 1, y |-> << -1, 2, 1 >>, x |-> << 1, 1, 1 >>, deg |-> FALSE],
                 [fn |-> "half_pi", neg |-> -1, y |-> << 1, 1, 1 >>, x |-> << 1, 1, 1 >>, deg |-> FALSE],
                 [fn |-> "zero", neg |-> 1, y |-> << 1, 1, 1 >>, x |-> << 1, 1, 1 >>, deg |-> FALSE] >>,
          general |->
              << [fn |-> "atan2", neg |-> 1, y |-> << -1, 3, 1 >>, x |-> << 1, 3, 3 >>, deg |-> FALSE],
                 [fn |-> "asin", neg |-> 1, y |-> << 1, 3, 2 >>, x |-> << 1, 1, 1 >>, deg |-> FALSE],
                 [fn |-> "atan2", neg |-> 1, y |-> << -1, 2, 1 >>, x |-> << 1, 2, 2 >>, deg |-> FALSE] >>]
      [] v = << "Outer", "Y", "Z", "X" >> ->
         [test1 |-> << 1, 2, -1 >>, test2 |-> << 1, 2, 1 >>,
          lock1 |->
              << [fn |-> "atan2", neg |-> 1, y |-> << -1, 3, 1 >>, x |-> << 1, 2, 1 >>, deg |-> FALSE],
                 [fn |-> "half_pi", neg |-> -1, y |-> << 1, 1, 1 >>, x |-> << 1, 1, 1 >>, deg |-> FALSE],
                 [fn |-> "zero", neg |-> 1, y |-> << 1, 1, 1 >>, x |-> << 1, 1, 1 >>, deg |-> FALSE] >>,
          lock2 |->
              << [fn |-> "atan2", neg |-> 1, y |-> << 1, 3, 1 >>, x |-> << 1, 2, 1 >>, deg |-> FALSE],
                 [fn |-> "half_pi", neg |-> 1, y |-> << 1, 1, 1 >>, x |-> << 1, 1, 1 >>, deg |-> FALSE],
                 [fn |-> "zero", neg |-> 1, y |-> << 1, 1, 1 >>, x |-> << 1, 1, 1 >>, deg |-> FALSE] >>,
          general |->
              << [fn |-> "atan2", neg |-> 1, y |-> << 1, 1, 3 >>, x |-> << 1, 1, 1 >>, deg |-> FALSE],
                 [fn |-> "asin", neg |-> -1, y |-> << 1, 1, 2 >>, x |-> << 1, 1, 1 >>, deg |-> FALSE],
                 [fn |-> "atan2", neg |-> 1, y |-> << 1, 3, 2 >>, x |-> << 1, 2, 2 >>, deg |-> FALSE] >>]
      [] v = << "Outer", "Z", "X", "Y" >> ->
         [test1 |-> << 2, 3, -1 >>, test2 |-> << 2, 3, 1 >>,
          lock1 |->
              << [fn |-> "atan2", neg |-> 1, y |-> << 1, 1, 2 >>, x |-> << 1, 3, 2 >>, deg |-> FALSE],
                 [fn |-> "half_pi", neg |-> -1, y |-> << 1, 1, 1 >>, x |-> << 1, 1, 1 >>, deg |-> FALSE],
                 [fn |-> "zero", neg |-> 1, y |-> << 1, 1, 1 >>, x |-> << 1, 1, 1 >>, deg |-> FALSE] >>,
          lock2 |->
              << [fn |-> "atan2", neg |-> 1, y |-> << -1, 1, 2 >>, x |-> << 1, 3, 2 >>, deg |-> FALSE],
                 [fn |-> "half_pi", neg |-> 1, y |-> << 1, 1, 1 >>, x |-> << 1, 1, 1 >>, deg |-> FALSE],
                 [fn |-> "zero", neg |-> 1, y |-> << 1, 1, 1 >>, x |-> << 1, 1, 1 >>, deg |-> FALSE] >>,
          general |->
              << [fn |-> "atan2", neg |-> 1, y |-> << 1, 2, 1 >>, x |-> << 1, 2, 2 >>, deg |-> FALSE],
                 [fn |-> "asin", neg |-> -1, y |-> << 1, 2, 3 >>, x |-> << 1, 1, 1 >>, deg |-> FALSE],
                 [fn |-> "atan2", neg |-> 1, y |-> << 1, 1, 3 >>, x |-> << 1, 3, 3 >>, deg |-> FALSE] >>]
      [] v = << "Outer", "Z", "Y", "X" >> ->
         [test1 |-> << 1, 3, -1 >>, test2 |-> << 1, 3, 1 >>,
          lock1 |->
              << [fn |-> "atan2", neg |-> 1, y |-> << 1, 3, 2 >>, x |-> << 1, 2, 2 >>, deg |-> FALSE],
                 [fn |-> "half_pi", neg |-> 1, y |-> << 1, 1, 1 >>, x |-> << 1, 1, 1 >>, deg |-> FALSE],
                 [fn |-> "zero", neg |-> 1, y |-> << 1, 1, 1 >>, x |-> << 1, 1, 1 >>, deg |-> FALSE] >>,
          lock2 |->
              << [fn |-> "atan2", neg |-> 1, y |-> << -1, 3, 2 >>, x |-> << 1, 2, 2 >>, deg |-> FALSE],
                 [fn |-> "half_pi", neg |-> -1, y |-> << 1, 1, 1 >>, x |-> << 1, 1, 1 >>, deg |-> FALSE],
                 [fn |-> "zero", neg |-> 1, y |-> << 1, 1, 1 >>, x |-> << 1, 1, 1 >>, deg |-> FALSE] >>,
          general |->
              << [fn |-> "atan2", neg |-> 1, y |-> << -1, 1, 2 >>, x |-> << 1, 1, 1 >>, deg |-> FALSE],
                 [fn |-> "atan2", neg |-> 1, y |-> << -1, 2, 3 >>, x |-> << 1, 3, 3 >>, deg |-> FALSE],
                 [fn |-> "asin", neg |-> 1, y |-> << 1, 1, 3 >>, x |-> << 1, 1, 1 >>, deg |-> FALSE] >>]

\* to_rot with every factor given the angle of its own position
to_rot_InOrder(v, theta) ==
    LET f == Factors(v)
    IN  MatMul(MatMul(AxisRot(f[1][1], theta[1]), AxisRot(f[2][1], theta[2])),
               AxisRot(f[3][1], theta[3]))

\* to_rot(theta1_rad, theta2_rad, theta3_rad): the product of the three
\* factors
to_rot(v, theta) ==
    LET f == Factors(v)
    IN  MatMul(MatMul(AxisRot(f[1][1], theta[f[1][2]]),
                      AxisRot(f[2][1], theta[f[2][2]])),
               AxisRot(f[3][1], theta[f[3][2]]))

\* EulerState.__init__(gibmal_eps=0.001), as a fraction
gimbal_eps == << 1, 1000 >>

\* near_zero(x, eps=self.gimbal_eps) of BasicModule.utility, for x in units
\* of 1/125: the magnitude of x is below eps
near_zero(x) == Abs(x) * gimbal_eps[2] < gimbal_eps[1] * Scale

\* math.atan2(y, x), math.acos(x), math.asin(x) for y and x in units of
\* 1/125
Atan2(y, x) ==
    IF y = 0 /\ x = 0 THEN 0
    ELSE LET S == { k \in AngleNumbers :
                      /\ CosSin(k)[2] * x = CosSin(k)[1] * y
                      /\ CosSin(k)[2] * y >= 0
                      /\ CosSin(k)[1] * x >= 0 }
         IN  IF S = {} THEN Other ELSE CHOOSE k \in S : TRUE

Acos(x) ==
    LET S == { k \in 0..Pi : CosSin(k)[1] * Unit * Unit = x }
    IN  IF S = {} THEN Other ELSE CHOOSE k \in S : TRUE

Asin(x) ==
    LET S == { k \in (0 - HalfPi)..HalfPi : CosSin(k)[2] * Unit * Unit = x }
    IN  IF S = {} THEN Other ELSE CHOOSE k \in S : TRUE

\* A returned number: the angle it is when read in radians, and whether it
\* went through math.degrees (which leaves only 0 the number it was).
Radians(k) == [value |-> k, unit |-> "rad"]
Degrees(a) == IF a.value = 0 THEN a ELSE [a EXCEPT !.unit = "deg"]

\* One right-hand side of from_rot: its arguments r_ij or -r_ij, the
\* function, the sign before it.
Value(e, rot) ==
    LET y == e.y[1] * rot[e.y[2]][e.y[3]]
        x == e.x[1] * rot[e.x[2]][e.x[3]]
        k == CASE e.fn = "zero" -> 0
               [] e.fn = "pi" -> Pi
               [] e.fn = "half_pi" -> HalfPi
               [] e.fn = "atan2" -> Atan2(y, x)
               [] e.fn = "acos" -> Acos(y)
               [] e.fn = "asin" -> Asin(y)
               [] OTHER -> Other
        a == Radians(IF k = Other THEN Other ELSE e.neg * k)
    IN  IF e.deg THEN Degrees(a) ELSE a

\* from_rot(rot): the shape check, the two gimbal-lock tests in their order,
\* then the general branch; the tuple returned.
from_rot(v, rot) ==
    IF Len(rot) # 3 \/ \E i \in 1..Len(rot) : Len(rot[i]) # 3
    THEN [kind |-> "ValueError", branch |-> "none", angles |-> << >>]
    ELSE
    LET b == Branches(v)
        branch ==
            IF near_zero(rot[b.test1[1]][b.test1[2]] + b.test1[3] * Scale)
            THEN "lock1"
            ELSE IF near_zero(rot[b.test2[1]][b.test2[2]] + b.test2[3] * Scale)
                 THEN "lock2"
                 ELSE "general"
        rhs == CASE branch = "lock1" -> b.lock1
                 [] branch = "lock2" -> b.lock2
                 [] branch = "general" -> b.general
    IN  IF \E i \in 1..3 : rhs[i].fn = "pi_2"   \* math has no pi_2
        THEN [kind |-> "AttributeError", branch |-> branch, angles |-> << >>]
        ELSE [kind |-> "angles", branch |-> branch,
              angles |-> [i \in 1..3 |-> Value(rhs[i], rot)]]

EulerInit ==
    /\ img1_pts = << >>
    /\ img2_pts = << >>
    /\ orig_pts = << >>
    /\ match_threashold = << 3, 1 >>
    /\ max_iter = 0
    /\ matrix = NoMatrix
    /\ arg \in [fn : { "euler" }, variant : Variants,
                theta : AngleNumbers \X AngleNumbers \X AngleNumbers]
    /\ coor_state = NoInstance
    /\ AtRest

\* rot = state.to_rot(theta1_rad, theta2_rad, theta3_rad)
ApplyToRot ==
    /\ pc = "idle"
    /\ applied = "none"
    /\ arg.fn = "euler"
    /\ applied' = "to_rot"
    /\ matrix' = to_rot(arg.variant, arg.theta)
    /\ UNCHANGED << callerVars, pc, data, iterations, bestVars, sample,
                    fit_result, candidate, outcome, prev_outcome, calls,
                    direct, fitted, scored, drawn, parVars, result, arg,
                    coor_state >>

\* state.from_rot(rot)
ApplyFromRot ==
    /\ pc = "idle"
    /\ applied = "to_rot"
    /\ arg.fn = "euler"
    /\ applied' = "from_rot"
    /\ result' = from_rot(arg.variant, matrix)
    /\ UNCHANGED << callerVars, pc, data, iterations, bestVars, sample,
                    fit_result, candidate, outcome, prev_outcome, calls,
                    direct, fitted, scored, drawn, parVars, matrix, arg,
                    coor_state >>

EulerNext ==
    \/ ApplyToRot
    \/ ApplyFromRot

SpecEuler == EulerInit /\ [][EulerNext]_vars

\* ------------------------------------------------- coordinate conventions
\* BasicModule/coordinate_state.py: CoordinateState and its four concrete
\* classes; camera.py: look_at and camera_pose.  Vectors are sequences of
\* three whole numbers; the positions and directions considered keep every
\* norm a whole number.
OpenGL == "CoorRH_PYup_PZforward_NXright_State"
OpenCV == "CoorRH_PZup_PYforward_PXright_State"
DirectX == "CoorLH_PYup_PZforward_PXright_State"
Unreal == "CoorLH_PZup_NYforward_PXright_State"
CoordinateStates == { OpenGL, OpenCV, DirectX, Unreal }

\* CoordinateState.__init__ (lines 82-86): four instance attributes, None.
BaseAttributes ==
    [coor_style |-> "None", up_axis |-> "None", forward_axis |-> "None",
     right_axis |-> "None"]

\* __init__ of the concrete class: super().__init__(), then its own
\* assignments to the same four instance attributes.
Construct(class) ==
    [class |-> class,
     attributes |->
        CASE class = OpenGL ->
               [BaseAttributes EXCEPT !.coor_style = "right",
                    !.up_axis = "pos_y", !.forward_axis = "pos_z",
                    !.right_axis = "neg_x"]
          [] class = OpenCV ->
               [BaseAttributes EXCEPT !.coor_style = "right",
                    !.up_axis = "pos_z", !.forward_axis = "pos_y",
                    !.right_axis = "pos_x"]
          [] class = DirectX ->
               [BaseAttributes EXCEPT !.coor_style = "left",
                    !.up_axis = "pos_y", !.forward_axis = "pos_z",
                    !.right_axis = "pos_x"]
          [] class = Unreal ->
               [BaseAttributes EXCEPT !.coor_style = "left",
                    !.up_axis = "pos_z", !.forward_axis = "neg_y",
                    !.right_axis = "pos_x"]]

\* instance.name: an instance attribute hides the function of the class of
\* the same name.
GetAttr(instance, name) ==
    IF name \in DOMAIN instance.attributes
    THEN [kind |-> "str", value |-> instance.attributes[name]]
    ELSE IF name \in { "look_at", "perspective_division", "forward_axis",
                       "right_axis", "up_axis" }
         THEN [kind |-> "method", value |-> name]
         ELSE [kind |-> "AttributeError", value |-> name]

\* get_axis_x, get_axis_y, get_axis_z of BasicModule.utility: the column of
\* the rotation matrix (the matrices are column-major, as the comments of
\* the callers say).
get_axis(rot, j) == << rot[1][j], rot[2][j], rot[3][j] >>

ScaleVec(k, v) == << k * v[1], k * v[2], k * v[3] >>

\* The return statements of forward_axis, right_axis and up_axis of each
\* class: the sign and the number of the column.
AxisOf(class, name) ==
    CASE class = OpenGL ->
           (CASE name = "forward_axis" -> << 1, 3 >>
              [] name = "right_axis" -> << 0 - 1, 1 >>
              [] name = "up_axis" -> << 1, 2 >>)
      [] class = OpenCV ->
           (CASE name = "forward_axis" -> << 1, 2 >>
              [] name = "right_axis" -> << 1, 1 >>
              [] name = "up_axis" -> << 1, 3 >>)
      [] class = DirectX ->
           (CASE name = "forward_axis" -> << 1, 3 >>
              [] name = "right_axis" -> << 1, 1 >>
              [] name = "up_axis" -> << 1, 2 >>)
      [] class = Unreal ->
           (CASE name = "forward_axis" -> << 1, 1 >>
              [] name = "right_axis" -> << 1, 2 >>
              [] name = "up_axis" -> << 1, 3 >>)

\* The function name of the class applied to rot.
Method(class, name, rot) ==
    ScaleVec(AxisOf(class, name)[1], get_axis(rot, AxisOf(class, name)[2]))

\* np.cross, np.linalg.norm and the division of a vector by its norm
Cross(u, v) ==
    << u[2] * v[3] - u[3] * v[2], u[3] * v[1] - u[1] * v[3],
       u[1] * v[2] - u[2] * v[1] >>
Norm(v) == CHOOSE n \in 0..Dot(v, v) : n * n = Dot(v, v)
Unitized(v) == << v[1] \div Norm(v), v[2] \div Norm(v), v[3] \div Norm(v) >>
Minus(u, v) == << u[1] - v[1], u[2] - v[2], u[3] - v[3] >>

\* look_at(target_pos, camera_pos, up_axis) of each class
look_at(class, target_pos, camera_pos, up_axis) ==
    LET cam_eye == Unitized(Minus(target_pos, camera_pos))
        cam_up == up_axis
        cam_x == IF class \in { OpenGL, OpenCV }
                 THEN Unitized(Cross(cam_eye, cam_up))
                 ELSE Unitized(ScaleVec(0 - 1, Cross(cam_eye, cam_up)))
        cam_y == IF class \in { OpenGL, Unreal }
                 THEN Unitized(Cross(cam_x, cam_eye))
                 ELSE Unitized(ScaleVec(0 - 1, Cross(cam_x, cam_eye)))
        cam_z == IF class \in { OpenGL, Unreal }
                 THEN Unitized(Cross(cam_x, cam_y))
                 ELSE cam_eye
        tx == 0 - Dot(cam_x, camera_pos)
        ty == 0 - Dot(cam_y, camera_pos)
        tz == 0 - Dot(cam_z, camera_pos)
    IN  << << cam_x[1], cam_y[1], cam_z[1], tx >>,
           << cam_x[2], cam_y[2], cam_z[2], ty >>,
           << cam_x[3], cam_y[3], cam_z[3], tz >>,
           << 0, 0, 0, 1 >> >>

\* geometry_context.name(rot) inside camera_pose: the attribute is looked
\* up on the coordinate state and called.
CallAxis(instance, name, rot) ==
    LET f == GetAttr(instance, name)
    IN  IF f.kind = "method"
        THEN [kind |-> "vector", value |-> Method(instance.class, name, rot)]
        ELSE [kind |-> "TypeError", value |-> << >>]

\* camera_pose(V, geometry_context) of camera.py
camera_pose(V, instance) ==
    IF Len(V) # 4 \/ \E i \in 1..Len(V) : Len(V[i]) # 4
    THEN [kind |-> "ValueError", trans |-> << >>, rot |-> NoMatrix,
          forward |-> << >>, right |-> << >>, up |-> << >>]
    ELSE
    LET trans == << 0 - V[1][4], 0 - V[2][4], 0 - V[3][4] >>
        rot == [i \in 1..3 |-> [j \in 1..3 |-> V[j][i]]]
        forward == CallAxis(instance, "forward_axis", rot)
        right == CallAxis(instance, "right_axis", rot)
        up == CallAxis(instance, "up_axis", rot)
    IN  IF \E r \in { forward, right, up } : r.kind = "TypeError"
        THEN [kind |-> "TypeError", trans |-> << >>, rot |-> NoMatrix,
              forward |-> << >>, right |-> << >>, up |-> << >>]
        ELSE [kind |-> "pose", trans |-> trans, rot |-> rot,
              forward |-> forward.value, right |-> right.value,
              up |-> up.value]

\* The inputs: a target, a camera at a whole distance from it along an axis,
\* an up vector along another axis, and a rotation matrix.
UnitVectors ==
    { << 1, 0, 0 >>, << 0, 1, 0 >>, << 0, 0, 1 >>,
      << 0 - 1, 0, 0 >>, << 0, 0 - 1, 0 >>, << 0, 0, 0 - 1 >> }
MaxDistance == 2

CoordArgs ==
    { [fn |-> "coord", class |-> c, target_pos |-> t,
       camera_pos |-> Minus(t, ScaleVec(d, e)), up_axis |-> u, rot |-> r] :
         c \in CoordinateStates,
         t \in { << 0, 0, 0 >>, << 1, 2, 3 >> },
         d \in 1..MaxDistance, e \in UnitVectors, u \in UnitVectors,
         r \in { << << 1, 0, 0 >>, << 0, 1, 0 >>, << 0, 0, 1 >> >>,
                 << << 0, 0 - 1, 0 >>, << 1, 0, 0 >>, << 0, 0, 1 >> >> } }

CoordInit ==
    /\ img1_pts = << >>
    /\ img2_pts = << >>
    /\ orig_pts = << >>
    /\ match_threashold = << 3, 1 >>
    /\ max_iter = 0
    /\ matrix = NoMatrix
    /\ arg \in { a \in CoordArgs :
                   Cross(Minus(a.target_pos, a.camera_pos), a.up_axis)
                       # << 0, 0, 0 >> }
    /\ coor_state = NoInstance
    /\ AtRest

\* state = Class()
ApplyConstruct ==
    /\ pc = "idle"
    /\ arg.fn = "coord"
    /\ applied = "none"
    /\ applied' = "construct"
    /\ coor_state' = Construct(arg.class)
    /\ UNCHANGED << callerVars, pc, data, iterations, bestVars, sample,
                    fit_result, candidate, outcome, prev_outcome, calls,
                    direct, fitted, scored, drawn, parVars, matrix, result,
                    arg >>

\* The functions forward_axis, right_axis and up_axis of the class of the
\* state, applied to rot.
ApplyAxes ==
    /\ pc = "idle"
    /\ arg.fn = "coord"
    /\ applied = "construct"
    /\ applied' = "axes"
    /\ result' = [kind |-> "axes",
                  forward |-> Method(coor_state.class, "forward_axis", arg.rot),
                  right |-> Method(coor_state.class, "right_axis", arg.rot),
                  up |-> Method(coor_state.class, "up_axis", arg.rot)]
    /\ UNCHANGED << callerVars, pc, data, iterations, bestVars, sample,
                    fit_result, candidate, outcome, prev_outcome, calls,
                    direct, fitted, scored, drawn, parVars, matrix, arg,
                    coor_state >>

\* V = look_at(target_pos, camera_pos, geometry_context, up_axis)
ApplyLookAt ==
    /\ pc = "idle"
    /\ arg.fn = "coord"
    /\ applied = "construct"
    /\ GetAttr(coor_state, "look_at").kind = "method"
    /\ applied' = "look_at"
    /\ matrix' = look_at(coor_state.class, arg.target_pos, arg.camera_pos,
                         arg.up_axis)
    /\ UNCHANGED << callerVars, pc, data, iterations, bestVars, sample,
                    fit_result, candidate, outcome, prev_outcome, calls,
                    direct, fitted, scored, drawn, parVars, result, arg,
                    coor_state >>

\* camera_pose(V, geometry_context)
ApplyCameraPose ==
    /\ pc = "idle"
    /\ arg.fn = "coord"
    /\ applied = "look_at"
    /\ applied' = "camera_pose"
    /\ result' = camera_pose(matrix, coor_state)
    /\ UNCHANGED << callerVars, pc, data, iterations, bestVars, sample,
                    fit_result, candidate, outcome, prev_outcome, calls,
                    direct, fitted, scored, drawn, parVars, matrix, arg,
                    coor_state >>

CoordNext ==
    \/ ApplyConstruct
    \/ ApplyAxes
    \/ ApplyLookAt
    \/ ApplyCameraPose

SpecCoord == CoordInit /\ [][CoordNext]_vars

\* ------------------------------------------ piecewise affine image embedding
\* Homography/affine.py: embed_image_in_image_with_devide_affine_warping.
\* An image is its shape << H, W >>; target_pts is its number N of columns;
\* patches is << rows, cols >>.
MaxSide == 8
MaxPatches == 3
MaxPoints == 9

\* ePatchH % 2 != 0 for ePatchH = eH / rows, a float division: the quotient
\* is a whole even number or the test raises ValueError
EvenQuotient(a, b) == a % b = 0 /\ (a \div b) % 2 = 0

\* Lines 439-455 and 459: the control points, row by row
embed_control_pts(rows, cols, ePatchH, ePatchW) ==
    [n \in 1..((rows + 1) * (cols + 1)) |->
        LET i == (n - 1) \div (cols + 1)
            j == (n - 1) % (cols + 1)
        IN  << IF j = 0 THEN 0 ELSE j * ePatchW - 1,
               IF i = 0 THEN 0 ELSE i * ePatchH - 1, 1 >>]

\* Line 460: sp.spacial.Delaunay(...).  scipy has no attribute spacial (the
\* submodule is scipy.spatial): the expression raises AttributeError before
\* any triangulation.
Delaunay(points) == [kind |-> "AttributeError", simplices |-> << >>]

Failed(kind) == [kind |-> kind, control_pts |-> << >>, tri_indices |-> << >>]

embed_image_in_image_with_devide_affine_warping(eShape, tShape, N, patches) ==
    LET rows == patches[1]
        cols == patches[2]
    IN  IF eShape # tShape THEN Failed("ValueError")
        ELSE IF N % 2 # 0 THEN Failed("ValueError")
        ELSE IF rows * cols # N THEN Failed("ValueError")
        ELSE IF rows = 0 \/ cols = 0 THEN Failed("ZeroDivisionError")
        ELSE IF ~EvenQuotient(eShape[1], rows)
                \/ ~EvenQuotient(eShape[2], cols)
             THEN Failed("ValueError")
        ELSE LET pts == embed_control_pts(rows, cols,
                                          eShape[1] \div rows,
                                          eShape[2] \div cols)
                 triangles == Delaunay(pts)
             IN  IF triangles.kind # "triangles"
                 THEN [kind |-> triangles.kind, control_pts |-> pts,
                       tri_indices |-> << >>]
                 ELSE [kind |-> "image", control_pts |-> pts,
                       tri_indices |-> triangles.simplices]

AffineInit ==
    /\ img1_pts = << >>
    /\ img2_pts = << >>
    /\ orig_pts = << >>
    /\ match_threashold = << 3, 1 >>
    /\ max_iter = 0
    /\ matrix = NoMatrix
    /\ arg \in [fn : { "embed" },
                embed_shape : (1..MaxSide) \X (1..MaxSide),
                same_shape : BOOLEAN, N : 0..MaxPoints,
                patches : (0..MaxPatches) \X (0..MaxPatches)]
    /\ coor_state = NoInstance
    /\ AtRest

ApplyEmbed ==
    /\ pc = "idle"
    /\ arg.fn = "embed"
    /\ applied = "none"
    /\ applied' = "embed"
    /\ result' = embed_image_in_image_with_devide_affine_warping(
                     arg.embed_shape,
                     IF arg.same_shape THEN arg.embed_shape
                     ELSE << arg.embed_shape[1] + 1, arg.embed_shape[2] >>,
                     arg.N, arg.patches)
    /\ UNCHANGED << callerVars, pc, data, iterations, bestVars, sample,
                    fit_result, candidate, outcome, prev_outcome, calls,
                    direct, fitted, scored, drawn, parVars, matrix, arg,
                    coor_state >>

AffineNext == ApplyEmbed

SpecAffine == AffineInit /\ [][AffineNext]_vars

\* ==================================================================== claims

\* Both arrays are [3 x N] with the same N.
WellFormedInput ==
    /\ Len(img1_pts) = Len(img2_pts)
    /\ \A i \in 1..Len(img1_pts) : Len(img1_pts[i]) = 3
    /\ \A i \in 1..Len(img2_pts) : Len(img2_pts[i]) = 3

\* The call has returned to the caller.
HasReturned == pc = "returned" /\ calls > 0

\* C1 (as stated): every call of the robust estimator ends with a
\* (model, inlier_mask) pair, InsufficientDataError or NoModelFoundError;
\* nothing else reaches the caller.
C1_ThreeOutcomes ==
    HasReturned =>
        outcome.kind \in { "pair", "InsufficientDataError", "NoModelFoundError" }

\* C1 (amended): every call ends with a pair, InsufficientDataError,
\* NoModelFoundError or, only for arrays that are not both [3 x N] with the
\* same N, ValueError; a pair always carries a fitted matrix and a mask with
\* one entry per correspondence, and an error carries neither.
C1_Outcomes ==
    HasReturned =>
        /\ outcome.kind \in { "pair", "InsufficientDataError",
                              "NoModelFoundError", "ValueError" }
        /\ outcome.kind = "ValueError" => ~ WellFormedInput
        /\ outcome.kind = "pair" =>
              /\ outcome.model.kind \in { "matrix", "nonfinite" }
              /\ Len(outcome.mask) = Len(img1_pts)
        /\ outcome.kind # "pair" =>
              outcome.model = NoModel /\ outcome.mask = << >>

C1_Witness ==
    /\ HasReturned
    /\ outcome.kind = "ValueError"
    /\ Len(img1_pts) = Len(img2_pts)
    /\ iterations = 0

\* The call is inside Ransac.execute.
Running == pc \in { "execute", "SAMPLING", "FITTING", "FITTED", "DECIDE", "REFINE" }

\* The largest number of steps the execution can still take: four for each
\* iteration left, less those already taken in the one under way.
StepsLeft ==
    CASE pc = "execute"  -> 4 * max_iter + 7
      [] pc = "SAMPLING" -> 4 * (max_iter - iterations) + 6
      [] pc = "FITTING"  -> 4 * (max_iter - iterations) + 5
      [] pc = "FITTED"   -> 4 * (max_iter - iterations) + 4
      [] pc = "DECIDE"   -> 4 * (max_iter - iterations) + 3
      [] pc = "REFINE"   -> 1
      [] OTHER           -> 0

\* Some step of the driver can be taken: a sample can be drawn or the loop
\* ended, and every result of a fit is handled.
CanStep ==
    /\ pc = "SAMPLING" =>
          iterations >= max_iter \/ SampleSpace(Len(data)) # {}
    /\ pc = "FITTED" =>
          fit_result.kind \in { "LinAlgError", "ValueError", "matrix", "nonfinite" }

\* C2: the loop terminates after at most max_iter iterations: an execution
\* can always take a step and every step brings it closer to its end; every
\* iteration, also one whose fit failed, advances the counter by exactly
\* one, and termination is decided only between iterations.
C2_Terminates ==
    /\ [](iterations <= max_iter)
    /\ [](Running => StepsLeft > 0 /\ CanStep)
    /\ [][ Running => StepsLeft' < StepsLeft ]_vars
    /\ [][ /\ (pc \in { "FITTED", "DECIDE" } /\ pc' = "SAMPLING")
                => iterations' = iterations + 1
           /\ iterations' # iterations
                => \/ iterations' = iterations + 1 /\ pc' = "SAMPLING"
                   \/ iterations' = 0 /\ calls' = calls + 1
           /\ (pc \in { "execute", "SAMPLING", "FITTING", "FITTED", "DECIDE" }
               /\ (pc' = "REFINE" \/ outcome'.kind = "NoModelFoundError"))
                => pc = "SAMPLING" /\ iterations = max_iter ]_vars

C2_Witness ==
    /\ HasReturned
    /\ max_iter >= 2
    /\ iterations = max_iter
    /\ Len(scored) < iterations
    /\ Len(scored) > 0

\* The candidates whose acceptance has been decided.
Decided == IF pc = "DECIDE" THEN SubSeq(scored, 1, Len(scored) - 1) ELSE scored

\* C3: the best state holds the candidate with the largest inlier count
\* among the candidates scored so far whose count is at least 20, the one
\* of the lowest iteration among those with that count; it is replaced only
\* by a strictly larger count, so the recorded count never decreases.
C3_BestSoFar ==
    /\ [] LET Q == { k \in 1..Len(Decided) : Decided[k].count >= 20 }
          IN  IF Q = {}
              THEN best_model = NoModel /\ best_count = 0 /\ best_mask = << >>
              ELSE \E k \in Q :
                     /\ \A j \in Q : Decided[j].count <= Decided[k].count
                     /\ \A j \in Q : Decided[j].count = Decided[k].count
                                        => Decided[k].index <= Decided[j].index
                     /\ best_model = Decided[k].model
                     /\ best_mask = Decided[k].mask
                     /\ best_count = Decided[k].count
    /\ [][ calls' = calls =>
             /\ best_count' >= best_count
             /\ bestVars' # bestVars => best_count' > best_count ]_vars

C3_Witness ==
    /\ pc = "SAMPLING"
    /\ Len(scored) = 2
    /\ scored[1].count = scored[2].count
    /\ scored[1].count >= 20
    /\ scored[1].model # scored[2].model
    /\ best_model = scored[1].model

\* The sample of this iteration consists of coincident points.
DegenerateSample ==
    LET x == Take(data, sample)
    IN  \/ StdIsZero(Homogenize(RowsTo3(x)))
        \/ StdIsZero(Homogenize(RowsFrom3(x)))

\* C4: when the fit of a sample fails (a numerical failure, as on 8
\* coincident points), the error does not reach the caller, best model,
\* mask and count stay as they are, and the loop goes on to the next
\* iteration.
C4_FitFailureAbandoned ==
    /\ [](outcome.kind # "LinAlgError")
    /\ [][ (pc = "FITTED" /\ WellFormedInput
            /\ (fit_result.kind = "LinAlgError" \/ DegenerateSample))
             => /\ pc' = "SAMPLING"
                /\ iterations' = iterations + 1
                /\ UNCHANGED << bestVars, outcome >> ]_vars

C4_Witness ==
    /\ pc = "FITTED"
    /\ WellFormedInput
    /\ DegenerateSample
    /\ fit_result.kind = "LinAlgError"
    /\ best_model # NoModel

\* C5: with fewer than 8 correspondences the call raises
\* InsufficientDataError, and it does so before a sample is drawn, a fit is
\* attempted or the iteration counter is advanced.
C5_InsufficientData ==
    /\ (pc \notin { "idle", "execute" } /\ calls > 0
        /\ Len(img1_pts) = Len(img2_pts) /\ Len(img1_pts) < 8)
          => pc = "returned" /\ outcome.kind = "InsufficientDataError"
    /\ outcome.kind = "InsufficientDataError"
          => /\ Len(data) < 8
             /\ drawn = 0
             /\ iterations = 0
             /\ fit_result = NoModel
             /\ scored = << >>

C5_Witness ==
    /\ HasReturned
    /\ outcome.kind = "InsufficientDataError"
    /\ Len(data) = SmallN

\* The loop of the last call has terminated.
LoopTerminated ==
    HasReturned /\ outcome.kind \in { "pair", "NoModelFoundError" }

\* No iteration produced a candidate with at least 20 inliers.
NoneReached == \A k \in 1..Len(scored) : scored[k].count < 20

\* The final fit on the inliers of the best model failed.
RefineFailed ==
    /\ best_model # NoModel
    /\ \E q \in fitted : q[1] = Select(best_mask, 1) /\ IsError(q[2])

\* C6 (as stated): the driver fails with NoModelFoundError if and only if
\* no iteration produced a candidate with at least 20 inliers.
C6_NoModelIffNoneReached ==
    LoopTerminated => (outcome.kind = "NoModelFoundError" <=> NoneReached)

\* C6 (amended): the driver fails with NoModelFoundError if and only if no
\* iteration produced a candidate with at least 20 inliers or the final fit
\* on the inliers failed; a returned mask has at least 20 inliers.
C6_NoModelFound ==
    LoopTerminated =>
        /\ outcome.kind = "NoModelFoundError" <=> (NoneReached \/ RefineFailed)
        /\ outcome.kind = "pair" => CountOf(outcome.mask) >= 20

C6_Witness ==
    /\ LoopTerminated
    /\ outcome.kind = "NoModelFoundError"
    /\ ~ NoneReached

\* The threshold test of the residuals of a model over all correspondences.
FullMask(model) ==
    MaskOf(sampson_error(RowsTo3(data), RowsFrom3(data), model),
           match_threashold)

\* The mask, count and model of the best state belong to one candidate.
StoredTogether ==
    /\ best_model # NoModel =>
         /\ Len(best_mask) = Len(data)
         /\ best_mask = FullMask(best_model)
         /\ best_count = CountOf(best_mask)
    /\ pc = "DECIDE" =>
         /\ Len(candidate.mask) = Len(data)
         /\ candidate.mask = FullMask(candidate.model)
         /\ candidate.count = CountOf(candidate.mask)

\* C7 (as stated): every mask in the state or returned has N entries and is
\* the threshold test of the residuals, over all correspondences, of the
\* model stored or returned with it.
C7_MaskOfItsModel ==
    /\ StoredTogether
    /\ outcome.kind = "pair" =>
         /\ Len(outcome.mask) = Len(data)
         /\ outcome.mask = FullMask(outcome.model)

\* C7 (amended): every mask in the state has N entries and is the threshold
\* test of the residuals, over all correspondences, of the model stored with
\* it; the mask returned is that of the best model of the loop, while the
\* model returned is the one fitted again on its inliers.
C7_MaskOfBestModel ==
    /\ StoredTogether
    /\ outcome.kind = "pair" =>
         /\ Len(outcome.mask) = Len(data)
         /\ outcome.mask = FullMask(best_model)
         /\ outcome.mask = best_mask

C7_Witness ==
    /\ HasReturned
    /\ outcome.kind = "pair"
    /\ outcome.model # best_model
    /\ outcome.mask # FullMask(outcome.model)

\* C8: fitting and scoring leave the caller's point arrays as they were.
C8_InputsUntouched == << img1_pts, img2_pts >> = orig_pts

\* C10: two calls with the same correspondences and the same configuration
\* return the same model and the same mask.
C10_Deterministic ==
    (HasReturned /\ calls = 2 /\ << img1_pts, img2_pts >> = orig_pts)
        => outcome = prev_outcome

RECURSIVE SeqBest(_, _, _)
\* The best state of the sequential loop after the iterations i, i+1, ...
\* of which cands holds the candidates, starting from the best state best.
SeqBest(cands, i, best) ==
    IF i >= max_iter THEN best
    ELSE LET here == { c \in cands : c.index = i }
         IN  IF \E c \in here : Beats(c, best.count)
             THEN SeqBest(cands, i + 1, CHOOSE c \in here : TRUE)
             ELSE SeqBest(cands, i + 1, best)

\* C9: with the iterations on several workers, in every interleaving the
\* best-so-far slot holds what the sequential run in iteration order would
\* hold for the candidates delivered so far (the lowest index among equal
\* counts), so no update is lost and the final best is that of the
\* sequential run; a worker holding a candidate can always deliver it.
C9_ParallelEqualsSequential ==
    pc \in { "parallel", "pardone" } =>
        /\ best_slot = SeqBest({ scored[k] : k \in 1..Len(scored) }, 0, NoCandidate)
        /\ \A w \in Workers :
             workers[w].state = "update" => ENABLED ParUpdate(w)

C9_Witness ==
    /\ pc = "pardone"
    /\ Len(scored) = 2
    /\ scored[1].index > scored[2].index
    /\ scored[1].count = scored[2].count
    /\ scored[1].count >= 20
    /\ scored[1].model # scored[2].model
    /\ best_slot = scored[2]

\* An execution ended by EarlyStop or Terminate in this step.
LoopEnds ==
    /\ pc = "SAMPLING"
    /\ pc' = "REFINE" \/ (pc' = "returned" /\ outcome'.kind = "NoModelFoundError")

InliersOfBest == { i \in 1..Len(best_mask) : best_mask[i] }

\* C13: when the loop ends with a best model, the estimator is run once
\* more on exactly the correspondences whose entry in the best mask is
\* true, each of them once and no other; it accepts them although they are
\* more than 8, and the model returned is the result of that fit, not the
\* model of the minimal sample.
C13_RefitOnInliers ==
    (LoopTerminated /\ best_model # NoModel) =>
        \E q \in fitted :
            /\ { q[1][k] : k \in 1..Len(q[1]) } = InliersOfBest
            /\ Len(q[1]) = Cardinality(InliersOfBest)
            /\ Len(q[1]) > 8
            /\ q[2].kind # "ValueError"
            /\ q[2].kind \in { "matrix", "nonfinite" }
                 => outcome = Returned(q[2], best_mask)

C13_Witness ==
    /\ LoopTerminated
    /\ outcome.kind = "pair"
    /\ outcome.model.kind = "matrix"
    /\ best_model.kind = "matrix"
    /\ outcome.model # best_model
    /\ Cardinality(InliersOfBest) \in 20..(Len(data) - 1)
    /\ << Select(best_mask, 1), outcome.model >> \in fitted

\* C14: a numerical failure of the final fit on the inliers ends the call
\* with NoModelFoundError, a numerical failure of the fit of a sample inside
\* the loop leaves the call running with its outcome open, and the error of
\* the decomposition itself never reaches the caller.
C14_RefineFailureReported ==
    /\ [](outcome.kind \notin { "LinAlgError", "none" } => HasReturned)
    /\ [](HasReturned => outcome.kind # "LinAlgError")
    /\ [][ pc = "REFINE" =>
             IF \E q \in fitted' :
                    q[1] = Select(best_mask, 1) /\ q[2].kind = "LinAlgError"
             THEN pc' = "returned" /\ outcome' = Raised("NoModelFoundError")
             ELSE pc' = "returned" /\ outcome'.kind = "pair" ]_vars
    /\ [][ (pc = "FITTED" /\ fit_result.kind = "LinAlgError")
             => pc' = "SAMPLING" /\ outcome' = Nothing ]_vars

C14_Witness ==
    /\ HasReturned
    /\ outcome.kind = "NoModelFoundError"
    /\ RefineFailed
    /\ iterations = max_iter
    /\ Len(scored) < iterations
    /\ \E q \in fitted : Len(q[1]) = 8 /\ q[2].kind = "LinAlgError"

\* The caller has called find_fundamental on its arrays.
DirectDone == direct # NoModel

SameFloat(e, f) ==
    /\ FloatOf(e) = FloatOf(f)
    /\ FloatOf(e) = "finite" => e[1] * f[2] = f[1] * e[2]

\* C16: the Sampson residual is symmetric under the exchange of the two
\* images: sampson_error(x1, x2, F)[i] = sampson_error(x2, x1, F.T)[i] for
\* every i.
C16_SampsonSymmetric ==
    applied = "sampson_error" =>
        \A i \in 1..Len(result.errors) :
            SameFloat(result.errors[i], result.swapped[i])

\* C17: a correspondence whose Sampson denominator is zero has the
\* residual +inf, never nan, and is an outlier for every threshold.
C17_ZeroDenominatorInf ==
    applied = "sampson_error" =>
        \A i \in 1..Len(result.errors) :
            result.errors[i][2] = 0 =>
                /\ FloatOf(result.errors[i]) = "inf"
                /\ \A thr \in Thresholds : ~ Below(result.errors[i], thr)

\* C18: the matrix returned has the bottom-right entry 1, and a matrix
\* whose bottom-right entry is zero before the scaling gives
\* IllConditionedModelError, not a matrix of entries that are not finite.
C18_UnitCorner ==
    applied = "rescale" =>
        /\ result.kind \in { "matrix", "IllConditionedModelError" }
        /\ result.kind = "matrix" => result.F[3][3] = 1
        /\ matrix[3][3] = 0 => result.kind = "IllConditionedModelError"

\* C19: T[0,2] = -S*mx and T[1,2] = -S*my, so for points that are not
\* degenerate the x row and the y row of T @ points both have mean zero.
C19_Centred ==
    (applied = "normalize" /\ ~ result.degenerate) =>
        /\ result.T = << - result.mean[1], - result.mean[2] >>
        /\ SumRow(result.points, 1, Len(result.points)) = 0
        /\ SumRow(result.points, 2, Len(result.points)) = 0

\* C20: row i of A holds the nine products of the coordinates of
\* correspondence i, (x1, y1, w1) by (x2, y2, w2) in row-major order, and
\* nothing of any other correspondence.
C20_RowOfOwnCorrespondence ==
    applied = "dlt" =>
        \A i \in 1..Len(result.A) :
            result.A[i] = [k \in 1..9 |->
                             img1_pts[i][((k - 1) \div 3) + 1]
                             * img2_pts[i][((k - 1) % 3) + 1]]

\* The determinant of a 3x3 matrix.
Det3(M) ==
    M[1][1] * (M[2][2] * M[3][3] - M[2][3] * M[3][2])
    - M[1][2] * (M[2][1] * M[3][3] - M[2][3] * M[3][1])
    + M[1][3] * (M[2][1] * M[3][2] - M[2][2] * M[3][1])

\* C21: every matrix the estimator returns has rank at most 2: it is a
\* matrix of finite entries whose determinant is zero.
C21_RankTwo ==
    applied = "enforce" =>
        /\ result.kind = "matrix"
        /\ Det3(result.F) = 0

\* The correspondences held satisfy the matrix M exactly.
ExactFor(M) ==
    \A i \in 1..Len(img1_pts) : Dot(img1_pts[i], MatVec(M, img2_pts[i])) = 0

\* S times the inverse of T = [[S, 0, a], [0, S, b], [0, 0, 1]]
TimesInverse(T) ==
    << << 1, 0, - T[1][3] >>, << 0, 1, - T[2][3] >>, << 0, 0, T[1][1] >> >>

\* M in the normalized coordinates, up to scale: T1^-T M T2^-1 times S1 * S2;
\* the normalized points satisfy it exactly when the points satisfy M.
InNormalized(M, T1, T2) ==
    MatMul(MatMul(Transpose(TimesInverse(T1)), M), TimesInverse(T2))

\* The entries of a 3x3 matrix, row by row.
Flat(M) == [k \in 1..9 |-> M[((k - 1) \div 3) + 1][((k - 1) % 3) + 1]]

RowTimes(row, f) ==
    row[1] * f[1] + row[2] * f[2] + row[3] * f[3] + row[4] * f[4]
    + row[5] * f[5] + row[6] * f[6] + row[7] * f[7] + row[8] * f[8]
    + row[9] * f[9]

\* C22: for at least 8 correspondences that satisfy a matrix F* exactly the
\* estimator recovers c * F*: F* in the normalized coordinates solves the
\* system A f = 0 from which the estimator takes its solution.
C22_ExactRecovery ==
    (applied = "system" /\ Len(img1_pts) >= 8 /\ ExactFor(matrix)) =>
        \A i \in 1..Len(result.A) :
            RowTimes(result.A[i],
                     Flat(InNormalized(matrix, result.T1, result.T2))) = 0

\* The points have their centroid at the origin and are all at the
\* distance sqrt(2) from it.
AlreadyNormalized(pts) ==
    /\ MeanTimesN(pts) = << 0, 0 >>
    /\ \A i \in 1..Len(pts) :
         pts[i][3] = 1 /\ pts[i][1] * pts[i][1] + pts[i][2] * pts[i][2] = 2

FromEuler(step) == arg.fn = "euler" /\ applied = step

\* The class of the other frame with the axes in the reverse order, and the
\* angles in the reverse order.
Reversed(v) ==
    << IF v[1] = "Outer" THEN "Inner" ELSE "Outer", v[4], v[3], v[2] >>
Backwards(theta) == << theta[3], theta[2], theta[1] >>

\* C24: for every axis sequence ABC the matrix that the extrinsic class of
\* the reversed sequence CBA returns for (t1, t2, t3) is the matrix that the
\* intrinsic class ABC returns for (t3, t2, t1).
C24_OuterIsReversedInner ==
    (FromEuler("to_rot") /\ arg.variant[1] = "Outer")
        => matrix = to_rot(Reversed(arg.variant), Backwards(arg.theta))

\* C24 witness: an extrinsic class of three different axes was given three
\* different angles, none of them zero, and its matrix is not the one of
\* the intrinsic class of the same sequence.
C24_Witness ==
    /\ FromEuler("to_rot")
    /\ arg.variant = << "Outer", "Y", "X", "Z" >>
    /\ arg.theta = << 1, 2, 4 >>
    /\ matrix # to_rot(<< "Inner", "Y", "X", "Z" >>, arg.theta)
    /\ matrix = to_rot(<< "Inner", "Z", "X", "Y" >>, << 4, 2, 1 >>)

\* The entry of rot that from_rot reads the second angle from; the matrix is
\* locked when that entry is within gimbal_eps of +1 or -1.
SecondEntry(v) == << Branches(v).test2[1], Branches(v).test2[2] >>
EntryAt(v, rot) == rot[SecondEntry(v)[1]][SecondEntry(v)[2]]
Locked(v, rot) ==
    near_zero(EntryAt(v, rot) - Scale) \/ near_zero(EntryAt(v, rot) + Scale)
LockValues(v) == IF v[2] = v[4] THEN { 0, Pi } ELSE { HalfPi, 0 - HalfPi }

\* C25: from_rot takes a gimbal-lock branch exactly when the entry of the
\* second angle is within gimbal_eps of +1 or -1, and then returns, in
\* radians, a first angle, the lock value of the second angle that gives the
\* entry its sign, and 0 for the third.
C25_LockBranchExactly ==
    FromEuler("from_rot") =>
        /\ result.kind = "angles"
        /\ (result.branch # "general") <=> Locked(arg.variant, matrix)
        /\ (result.branch # "general") =>
              /\ result.angles[1].unit = "rad"
              /\ result.angles[2].unit = "rad"
              /\ result.angles[2].value \in LockValues(arg.variant)
              /\ EntryAt(arg.variant, matrix) =
                    EntryAt(arg.variant,
                            to_rot(arg.variant,
                                   << 0, result.angles[2].value, 0 >>))
              /\ result.angles[3] = Radians(0)

\* The principal ranges: the first and third angle in (-pi, pi], the second
\* in [0, pi] for a classic and in [-pi/2, pi/2] for a Bryant sequence, and
\* not one of its lock values.
Principal(v, theta) ==
    /\ theta[2] \in (IF v[2] = v[4] THEN 0..Pi ELSE (0 - HalfPi)..HalfPi)
    /\ theta[2] \notin LockValues(v)

\* C27: for angles in the principal ranges with the second away from gimbal
\* lock, from_rot of the matrix of to_rot returns the three angles, in
\* radians and in the order of the arguments, and does not raise.
C27_RoundTrip ==
    (FromEuler("from_rot") /\ Principal(arg.variant, arg.theta)) =>
        /\ result.kind = "angles"
        /\ result.angles = << Radians(arg.theta[1]), Radians(arg.theta[2]),
                              Radians(arg.theta[3]) >>

\* ------------------------------------------- coordinate convention claims
FromCoord(step) == arg.fn = "coord" /\ applied = step

\* The rows of the table of the module docstring (lines 43-46): the object
\* axis that is up, forward and right, as the label of the axis and as the
\* sign and number of the column.
TableRow(class) ==
    CASE class = OpenCV ->
           [up_axis |-> "pos_z", forward_axis |-> "pos_y",
            right_axis |-> "pos_x"]
      [] class = OpenGL ->
           [up_axis |-> "pos_y", forward_axis |-> "pos_z",
            right_axis |-> "neg_x"]
      [] class = DirectX ->
           [up_axis |-> "pos_y", forward_axis |-> "pos_z",
            right_axis |-> "pos_x"]
      [] class = Unreal ->
           [up_axis |-> "pos_z", forward_axis |-> "pos_x",
            right_axis |-> "pos_y"]

LabelColumn(label, rot) ==
    CASE label = "pos_x" -> get_axis(rot, 1)
      [] label = "pos_y" -> get_axis(rot, 2)
      [] label = "pos_z" -> get_axis(rot, 3)
      [] label = "neg_x" -> ScaleVec(0 - 1, get_axis(rot, 1))
      [] label = "neg_y" -> ScaleVec(0 - 1, get_axis(rot, 2))
      [] label = "neg_z" -> ScaleVec(0 - 1, get_axis(rot, 3))

AxisNames == { "up_axis", "forward_axis", "right_axis" }

\* C26: in each of the four conventions the labels up_axis, forward_axis,
\* right_axis set by the constructor, and the columns that the functions of
\* these names return, are those of the convention's row of the table.
C26_LabelsAndMethodsMatchTable ==
    FromCoord("axes") =>
        /\ \A n \in AxisNames :
              coor_state.attributes[n] = TableRow(coor_state.class)[n]
        /\ result.up = LabelColumn(TableRow(coor_state.class).up_axis, arg.rot)
        /\ result.forward =
              LabelColumn(TableRow(coor_state.class).forward_axis, arg.rot)
        /\ result.right =
              LabelColumn(TableRow(coor_state.class).right_axis, arg.rot)

\* C28: camera_pose of the view matrix of look_at(target_pos, camera_pos, up)
\* returns camera_pos as the position of the camera.
C28_PoseOfLookAt ==
    FromCoord("camera_pose") =>
        /\ result.kind = "pose"
        /\ result.trans = arg.camera_pos

\* C29: once a coordinate state is constructed, the names forward_axis,
\* right_axis and up_axis resolve on it to the functions of its class.
C29_AxisMethodsCallable ==
    (arg.fn = "coord" /\ applied # "none") =>
        \A n \in AxisNames : GetAttr(coor_state, n).kind = "method"

\* ------------------------------------------------------ embedding claims
\* The inputs the function accepts: equal shapes, N even, rows * cols = N,
\* patch height and width even.
Accepted(a) ==
    /\ a.same_shape
    /\ a.N % 2 = 0
    /\ a.patches[1] * a.patches[2] = a.N
    /\ a.patches[1] > 0 /\ a.patches[2] > 0
    /\ EvenQuotient(a.embed_shape[1], a.patches[1])
    /\ EvenQuotient(a.embed_shape[2], a.patches[2])

\* C30: for every accepted input the function produces triangles over the
\* control points, and every vertex index of every triangle is a column
\* index of target_pts, that is one of 0 .. N - 1.
C30_TriangleIndicesValid ==
    (arg.fn = "embed" /\ applied = "embed" /\ Accepted(arg)) =>
        /\ result.kind = "image"
        /\ \A t \in 1..Len(result.tri_indices) :
              \A k \in 1..3 :
                  result.tri_indices[t][k] \in 0..(arg.N - 1)

====
